---- MODULE Spec2Model ----
(***************************************************************************)
(* Model of the iptv-filter server: the EPG ingestion / normalisation /    *)
(* matching engine (src/lib/epg.ts), the merged XMLTV endpoint             *)
(* (src/app/api/epg/route.ts) and the per-provider upstream catalog cache  *)
(* (src/app/api/xtream/route.ts).                                          *)
(*                                                                         *)
(* Strings are sequences of characters; a character is a one-element       *)
(* TLA+ string ("A", " ", ".").  The stylised Unicode letters of the       *)
(* quality tags are written "^H", "^D", ...                                *)
(***************************************************************************)
EXTENDS Integers, Sequences, FiniteSets, TLC

\* null / undefined of an object-valued variable
NULL == [null |-> TRUE]
\* no provider id
NoProvider == "none"

Max(S) == CHOOSE x \in S : \A y \in S : y <= x
Min(S) == CHOOSE x \in S : \A y \in S : x <= y

(***************************************************************************)
(* Characters and the JavaScript string primitives used by epg.ts          *)
(***************************************************************************)
LowerChars == <<"a","b","c","d","e","f","g","h","i","j","k","l","m",
                "n","o","p","q","r","s","t","u","v","w","x","y","z">>
UpperChars == <<"A","B","C","D","E","F","G","H","I","J","K","L","M",
                "N","O","P","Q","R","S","T","U","V","W","X","Y","Z">>
DigitChars == {"0","1","2","3","4","5","6","7","8","9"}
UpperSet == {UpperChars[i] : i \in 1..26}

\* \s of a JavaScript regular expression, and the characters trim() removes
IsSpace(c) == c \in {" ", "\t", "\n"}

\* String.prototype.toUpperCase, one character
UpperChar(c) ==
  IF \E i \in 1..26 : LowerChars[i] = c
  THEN UpperChars[CHOOSE i \in 1..26 : LowerChars[i] = c]
  ELSE c

ToUpperCase(s) == [i \in 1..Len(s) |-> UpperChar(s[i])]

\* t occurs in s starting at position i
StartsWithAt(s, i, t) ==
  /\ i >= 1
  /\ i + Len(t) - 1 <= Len(s)
  /\ \A k \in 1..Len(t) : s[i + k - 1] = t[k]

\* greedy \s* from position i: the first position at or after i that is not
\* white space (Len(s)+1 when the rest of s is white space)
SkipSpaces(s, i) ==
  Max({j \in i..(Len(s) + 1) : \A k \in i..(j - 1) : IsSpace(s[k])})

\* String.prototype.includes
Includes(s, t) ==
  \E i \in 1..(Len(s) - Len(t) + 1) : StartsWithAt(s, i, t)

\* String.prototype.trim
Trim(s) ==
  IF \A k \in 1..Len(s) : IsSpace(s[k]) THEN <<>>
  ELSE LET a == Min({k \in 1..Len(s) : ~IsSpace(s[k])})
           b == Max({k \in 1..Len(s) : ~IsSpace(s[k])})
       IN SubSeq(s, a, b)

\* s.replace(/lit/g, rep) for a literal, non-empty pattern
RECURSIVE ReplaceAllFrom(_, _, _, _)
ReplaceAllFrom(s, i, lit, rep) ==
  IF i > Len(s) THEN <<>>
  ELSE IF StartsWithAt(s, i, lit)
       THEN rep \o ReplaceAllFrom(s, i + Len(lit), lit, rep)
       ELSE <<s[i]>> \o ReplaceAllFrom(s, i + 1, lit, rep)

ReplaceAll(s, lit, rep) == ReplaceAllFrom(s, 1, lit, rep)

\* .replace(/\s*\([^)]*\)\s*/g, " ")
RECURSIVE StripParensFrom(_, _)
StripParensFrom(s, i) ==
  IF i > Len(s) THEN <<>>
  ELSE LET j == SkipSpaces(s, i)
           closes == {k \in (j + 1)..Len(s) : s[k] = ")"}
       IN IF j <= Len(s) /\ s[j] = "(" /\ closes # {}
          THEN <<" ">> \o StripParensFrom(s, SkipSpaces(s, Min(closes) + 1))
          ELSE <<s[i]>> \o StripParensFrom(s, i + 1)

StripParens(s) == StripParensFrom(s, 1)

\* .replace(/[^A-Z0-9 ]/g, "")
KeepAlnumSpace(s) ==
  SelectSeq(s, LAMBDA c : c \in UpperSet \cup DigitChars \cup {" "})

\* .replace(/\s+/g, " ")
RECURSIVE CollapseSpacesFrom(_, _)
CollapseSpacesFrom(s, i) ==
  IF i > Len(s) THEN <<>>
  ELSE IF IsSpace(s[i])
       THEN <<" ">> \o CollapseSpacesFrom(s, SkipSpaces(s, i))
       ELSE <<s[i]>> \o CollapseSpacesFrom(s, i + 1)

CollapseSpaces(s) == CollapseSpacesFrom(s, 1)

\* the alternatives of the leading prefix, in the order the pattern lists them
MatchPrefixes == << <<"A","R">>, <<"L","A">>,
                    <<"A","R","G","E","N","T","I","N","A">>,
                    <<"C","A","N","A","L">> >>

\* .replace(/^(AR|LA|ARGENTINA|CANAL)\s*[:.]?\s*/i, "") on an upper-cased
\* string: the first alternative that is a prefix is taken (everything after
\* it is optional, so the engine never backtracks to a later alternative)
StripLeadingPrefix(s) ==
  LET hits == {a \in 1..Len(MatchPrefixes) : StartsWithAt(s, 1, MatchPrefixes[a])}
  IN IF hits = {} THEN s
     ELSE LET p  == MatchPrefixes[Min(hits)]
              j1 == SkipSpaces(s, Len(p) + 1)
              j2 == IF j1 <= Len(s) /\ s[j1] \in {":", "."} THEN j1 + 1 ELSE j1
              j3 == SkipSpaces(s, j2)
          IN SubSeq(s, j3, Len(s))

\* the alternatives of the quality tag, in the order the pattern lists them
QualityTags == << <<"H","D">>, <<"S","D">>, <<"F","H","D">>, <<"U","H","D">>,
                  <<"^H","^D">>, <<"^U","^H","^D">>, <<"^R","^A","^W">>,
                  <<"^h","^e","^v","^c">>, <<"^6","^0","^f","^p","^s">>,
                  <<"^3","^8","^4","^0","^P">> >>

\* .replace(/\s*(HD|SD|FHD|UHD|...)\s*/g, "")
RECURSIVE StripQualityFrom(_, _)
StripQualityFrom(s, i) ==
  IF i > Len(s) THEN <<>>
  ELSE LET j == SkipSpaces(s, i)
           hits == {a \in 1..Len(QualityTags) : StartsWithAt(s, j, QualityTags[a])}
       IN IF hits # {}
          THEN StripQualityFrom(s, SkipSpaces(s, j + Len(QualityTags[Min(hits)])))
          ELSE <<s[i]>> \o StripQualityFrom(s, i + 1)

StripQuality(s) == StripQualityFrom(s, 1)

normalizeForMatch(name) ==
  LET s1 == ToUpperCase(name)
      s2 == StripLeadingPrefix(s1)
      s3 == StripQuality(s2)
      s4 == StripParens(s3)
      s5 == ReplaceAll(s4, <<".">>, <<" ">>)
      s6 == ReplaceAll(s5, <<"&","a","m","p",";">>, <<"&">>)
      s7 == ReplaceAll(s6, <<"&">>, <<"A","N","D">>)
      s8 == KeepAlnumSpace(s7)
      s9 == CollapseSpaces(s8)
  IN Trim(s9)

\* .replace(/\.AR$/i, "")
StripCountrySuffix(s) ==
  IF StartsWithAt(s, Len(s) - 2, <<".","A","R">>)
  THEN SubSeq(s, 1, Len(s) - 3)
  ELSE s

\* .replace(/^CANAL\.\s*/i, "")
StripCanalPrefix(s) ==
  IF StartsWithAt(s, 1, <<"C","A","N","A","L",".">>)
  THEN SubSeq(s, SkipSpaces(s, 7), Len(s))
  ELSE s

normalizeEpgId(id) ==
  LET s1 == ToUpperCase(id)
      s2 == StripCountrySuffix(s1)
      s3 == StripCanalPrefix(s2)
      s4 == ReplaceAll(s3, <<".">>, <<" ">>)
      s5 == StripParens(s4)
      s6 == ReplaceAll(s5, <<"&","a","m","p",";">>, <<"A","N","D">>)
      s7 == ReplaceAll(s6, <<"&">>, <<"A","N","D">>)
      s8 == KeepAlnumSpace(s7)
      s9 == CollapseSpaces(s8)
  IN Trim(s9)

(***************************************************************************)
(* xmltvTimeToEpoch: a number is [nan |-> FALSE, val |-> n], the value NaN  *)
(* is [nan |-> TRUE, val |-> 0]                                            *)
(***************************************************************************)
Num(n) == [nan |-> FALSE, val |-> n]
NaN == [nan |-> TRUE, val |-> 0]

DigitSeq == <<"0","1","2","3","4","5","6","7","8","9">>
DigitVal(c) == (CHOOSE d \in 1..10 : DigitSeq[d] = c) - 1

\* \d{n} matches at position i
DigitsAt(s, i, n) ==
  /\ i >= 1
  /\ i + n - 1 <= Len(s)
  /\ \A k \in i..(i + n - 1) : s[k] \in DigitChars

\* the number a group of two or of four digits denotes
Num2(s, i) == DigitVal(s[i]) * 10 + DigitVal(s[i + 1])
Num4(s, i) == Num2(s, i) * 100 + Num2(s, i + 2)

\* the days from 1970-01-01 to the first day of month m of year y, plus d - 1
\* (MakeDay: a day past the end of the month runs into the next month)
DaysFromCivil(y, m, d) ==
  LET y2  == IF m <= 2 THEN y - 1 ELSE y
      era == y2 \div 400
      yoe == y2 - era * 400
      mp  == IF m > 2 THEN m - 3 ELSE m + 9
      doy == (153 * mp + 2) \div 5
      doe == yoe * 365 + yoe \div 4 - yoe \div 100 + doy
  IN era * 146097 + doe - 719468 + (d - 1)

\* new Date(iso).getTime() / 1000 for iso = "y-m-dTh:min:s" followed by "Z"
\* (tzSign = 0) or by the offset "+hh:mm" / "-hh:mm": the date-time format of
\* ECMAScript as Node's engine reads it. A field out of range gives an
\* invalid date, whose time is NaN; 24:00:00 is the end of the day.
DateSeconds(y, m, d, h, min, sec, tzSign, tzH, tzM) ==
  IF /\ m \in 1..12
     /\ d \in 1..31
     /\ \/ (h \in 0..23 /\ min \in 0..59 /\ sec \in 0..59)
        \/ (h = 24 /\ min = 0 /\ sec = 0)
     /\ tzH \in 0..23
     /\ tzM \in 0..59
  THEN Num(DaysFromCivil(y, m, d) * 86400 + h * 3600 + min * 60 + sec
           - tzSign * (tzH * 3600 + tzM * 60))
  ELSE NaN

\* timeStr.match(/(\d{4})(\d{2})(\d{2})(\d{2})(\d{2})(\d{2})\s*([+-]\d{4})?/):
\* the first position where 14 digits start, 0 when there is none
TimeMatchAt(timeStr) ==
  LET at == {i \in 1..Len(timeStr) : DigitsAt(timeStr, i, 14)}
  IN IF at = {} THEN 0 ELSE Min(at)

\* the position of the sign of the offset group, 0 when the group is undefined
TimeZoneAt(timeStr, i) ==
  LET j == SkipSpaces(timeStr, i + 14)
  IN IF /\ j <= Len(timeStr)
        /\ timeStr[j] \in {"+", "-"}
        /\ DigitsAt(timeStr, j + 1, 4)
     THEN j ELSE 0

\* Math.floor(NaN) is NaN; the seconds are whole, so the floor of a number
\* is the number
xmltvTimeToEpoch(timeStr) ==
  LET i == TimeMatchAt(timeStr)
  IN IF i = 0 THEN Num(0)
     ELSE LET z == TimeZoneAt(timeStr, i)
          IN DateSeconds(Num4(timeStr, i), Num2(timeStr, i + 4),
                         Num2(timeStr, i + 6), Num2(timeStr, i + 8),
                         Num2(timeStr, i + 10), Num2(timeStr, i + 12),
                         IF z = 0 THEN 0
                         ELSE IF timeStr[z] = "+" THEN 1 ELSE -1,
                         IF z = 0 THEN 0 ELSE Num2(timeStr, z + 1),
                         IF z = 0 THEN 0 ELSE Num2(timeStr, z + 3))

(***************************************************************************)
(* XMLTV documents.  A document is the sequence of its channel elements    *)
(* and the sequence of its programme elements.  A channel element has an   *)
(* id attribute and a display-name text ("" when the sub-element is        *)
(* missing or empty); a programme element has its attributes (wellFormed   *)
(* when they are start, stop, channel in that order), and a title and a    *)
(* desc text ("" when missing).                                            *)
(***************************************************************************)
Ch(id, dn) == [id |-> id, dn |-> dn]
Pr(wf, start, stop, channel, title, desc) ==
  [wellFormed |-> wf, start |-> start, stop |-> stop, channel |-> channel,
   title |-> title, desc |-> desc]
Doc(chs, prs) == [channels |-> chs, programmes |-> prs]

\* channelRegex.exec loop: '<channel id="..."' followed lazily by the next
\* display-name element with non-empty text; the scan resumes after that
\* display-name
RECURSIVE ScanChannels(_, _)
ScanChannels(els, i) ==
  IF i > Len(els) THEN <<>>
  ELSE LET named == {j \in i..Len(els) : els[j].dn # ""}
       IN IF named = {} THEN <<>>
          ELSE <<[id |-> els[i].id, displayName |-> els[Min(named)].dn]>>
               \o ScanChannels(els, Min(named) + 1)

\* progRegex.exec loop with titleRegex / descRegex on the element body
ScanProgrammes(els) ==
  LET wf == SelectSeq(els, LAMBDA e : e.wellFormed)
  IN [k \in 1..Len(wf) |->
        [start |-> wf[k].start, stop |-> wf[k].stop, channel |-> wf[k].channel,
         title |-> wf[k].title, description |-> wf[k].desc]]

\* the accumulators of one fetchEpgData run
EmptyAcc == [channels |-> <<>>, programmes |-> <<>>, seen |-> {}]

\* AddChannel without the seenNormalized test: every declaration is pushed
AddChannel_NoDedupe(acc, rec) ==
  LET norm == normalizeEpgId(rec.id)
  IN [acc EXCEPT !.seen = @ \cup {norm},
                 !.channels = Append(@, [id |-> rec.id,
                                         displayName |-> rec.displayName,
                                         normalized |-> norm])]

\* if (!seenNormalized.has(norm)) { seenNormalized.add(norm); channels.push(..) }
AddChannel(acc, rec) ==
  LET norm == normalizeEpgId(rec.id)
  IN IF norm \in acc.seen THEN acc
     ELSE [acc EXCEPT !.seen = @ \cup {norm},
                      !.channels = Append(@, [id |-> rec.id,
                                              displayName |-> rec.displayName,
                                              normalized |-> norm])]

RECURSIVE AddChannels(_, _, _)
AddChannels(acc, recs, i) ==
  IF i > Len(recs) THEN acc
  ELSE AddChannels(AddChannel(acc, recs[i]), recs, i + 1)

\* programmes.get(channelId).push(prog): the map is a function from the
\* channel ids it holds to their programme lists
AddProgramme(progs, p) ==
  IF p.channel \in DOMAIN progs
  THEN [progs EXCEPT ![p.channel] = Append(@, p)]
  ELSE [c \in DOMAIN progs \cup {p.channel} |->
          IF c = p.channel THEN <<p>> ELSE progs[c]]

RECURSIVE AddProgrammes(_, _, _)
AddProgrammes(progs, recs, i) ==
  IF i > Len(recs) THEN progs
  ELSE AddProgrammes(AddProgramme(progs, recs[i]), recs, i + 1)

\* the synchronous part of one iteration of the source loop, after the body
\* of the response has been read
ParseSource(acc, doc) ==
  LET a1 == AddChannels(acc, ScanChannels(doc.channels, 1), 1)
  IN [a1 EXCEPT !.programmes =
        AddProgrammes(@, ScanProgrammes(doc.programmes), 1)]

(***************************************************************************)
(* The EPG sources and what fetching one can give                          *)
(***************************************************************************)
EPG_SOURCES == << [gzipped |-> TRUE], [gzipped |-> FALSE] >>

NumSources == Len(EPG_SOURCES)

\* the outcome of fetching a source: the fetch rejects ("neterr"), the
\* status is not ok ("http"), gunzipSync throws ("gunzip", compressed
\* sources only) or the body is read ("ok")
Statuses(i) ==
  IF EPG_SOURCES[i].gzipped THEN {"ok", "neterr", "http", "gunzip"}
  ELSE {"ok", "neterr", "http"}

\* FetchSourceInto without "if (!res.ok) continue" and without the catch: the
\* body is parsed whatever the fetch gave
FetchSourceInto_IgnoreStatus(acc, out) == ParseSource(acc, out.doc)

\* one iteration of the source loop of fetchEpgData
FetchSourceInto(acc, out) ==
  IF out.status = "ok" THEN ParseSource(acc, out.doc) ELSE acc

(***************************************************************************)
(* The state of the process                                                *)
(***************************************************************************)
VARIABLES
  now,           \* Date.now()
  ticks,         \* number of clock steps taken
  epgData,       \* epg.ts: let epgData (NULL or [channels, programmes])
  epgFetchedAt,  \* epg.ts: let epgFetchedAt
  epgFrom,       \* history: the source outcomes of the refresh that set epgData
  cachedXml,     \* epg/route.ts: let cachedXml (NULL or the merged blocks)
  cachedAt,      \* epg/route.ts: let cachedAt
  xmlFrom,       \* history: the source outcomes of the run that set cachedXml
  cache,         \* xtream/route.ts: const cache (provider -> NULL or entry)
  req,           \* the requests in flight: position and local variables
  call,          \* the last matchEpgId call made on its own: arguments, result
  probe,         \* the last call of another function made on its own
  providers,     \* db.ts: table providers (id -> NULL or the row)
  selections,    \* db.ts: table selections (the rows <<provider_id, stream_id>>)
  sessions,      \* session.ts: const sessions (token -> NULL or the data)
  task           \* the calls of db.ts functions in flight: position, locals

(***************************************************************************)
(* matchEpgId on a dataset that fetchEpgData returned                      *)
(***************************************************************************)
\* matchEpgId without its first test: every id is matched again
HasEpgId_Never(existingEpgId) == FALSE

\* if (existingEpgId && existingEpgId.trim() !== "")
HasEpgId(existingEpgId) == existingEpgId # <<>> /\ Trim(existingEpgId) # <<>>

\* FuzzyLoop with ">=" for ">": on equal lengths the last candidate wins
RECURSIVE FuzzyLoop_LastWins(_, _, _, _, _)
FuzzyLoop_LastWins(channels, normalizedName, i, bestMatch, bestLen) ==
  IF i > Len(channels) THEN bestMatch
  ELSE LET ch == channels[i]
       IN IF /\ Len(ch.normalized) >= 4
             /\ \/ Includes(normalizedName, ch.normalized)
                \/ Includes(ch.normalized, normalizedName)
             /\ Len(ch.normalized) >= bestLen
          THEN FuzzyLoop_LastWins(channels, normalizedName, i + 1, i, Len(ch.normalized))
          ELSE FuzzyLoop_LastWins(channels, normalizedName, i + 1, bestMatch, bestLen)

\* FuzzyLoop without "if (ch.normalized.length < 4) continue"
RECURSIVE FuzzyLoop_NoFloor(_, _, _, _, _)
FuzzyLoop_NoFloor(channels, normalizedName, i, bestMatch, bestLen) ==
  IF i > Len(channels) THEN bestMatch
  ELSE LET ch == channels[i]
       IN IF /\ \/ Includes(normalizedName, ch.normalized)
                \/ Includes(ch.normalized, normalizedName)
             /\ Len(ch.normalized) > bestLen
          THEN FuzzyLoop_NoFloor(channels, normalizedName, i + 1, i, Len(ch.normalized))
          ELSE FuzzyLoop_NoFloor(channels, normalizedName, i + 1, bestMatch, bestLen)

\* the second loop: bestMatch / bestLen
RECURSIVE FuzzyLoop(_, _, _, _, _)
FuzzyLoop(channels, normalizedName, i, bestMatch, bestLen) ==
  IF i > Len(channels) THEN bestMatch
  ELSE LET ch == channels[i]
       IN IF Len(ch.normalized) < 4
          THEN FuzzyLoop(channels, normalizedName, i + 1, bestMatch, bestLen)
          ELSE IF /\ \/ Includes(normalizedName, ch.normalized)
                     \/ Includes(ch.normalized, normalizedName)
                  /\ Len(ch.normalized) > bestLen
               THEN FuzzyLoop(channels, normalizedName, i + 1, i, Len(ch.normalized))
               ELSE FuzzyLoop(channels, normalizedName, i + 1, bestMatch, bestLen)

\* matchEpgId without the first loop: the fuzzy phase alone decides
matchEpgId_NoExact(channels, streamName, existingEpgId) ==
  IF HasEpgId(existingEpgId)
  THEN [id |-> existingEpgId, via |-> "existing"]
  ELSE LET normalizedName == normalizeForMatch(streamName)
           best == FuzzyLoop(channels, normalizedName, 1, 0, 0)
       IN IF normalizedName = <<>>
          THEN [id |-> existingEpgId, via |-> "emptyname"]
          ELSE IF best # 0
               THEN [id |-> channels[best].id, via |-> "fuzzy"]
               ELSE [id |-> existingEpgId, via |-> "nomatch"]

\* matchEpgId without "if (!normalizedName) return existingEpgId"
matchEpgId_NoEmptyCheck(channels, streamName, existingEpgId) ==
  IF HasEpgId(existingEpgId)
  THEN [id |-> existingEpgId, via |-> "existing"]
  ELSE LET normalizedName == normalizeForMatch(streamName)
           exact == {i \in 1..Len(channels) : channels[i].normalized = normalizedName}
           best == FuzzyLoop(channels, normalizedName, 1, 0, 0)
       IN IF exact # {}
          THEN [id |-> channels[Min(exact)].id, via |-> "exact"]
          ELSE IF best # 0
               THEN [id |-> channels[best].id, via |-> "fuzzy"]
               ELSE [id |-> existingEpgId, via |-> "nomatch"]

\* matchEpgId with bestLen declared outside the function: the fuzzy loop starts
\* from the length the last fuzzy match left there
matchEpgId_KeptBestLen(channels, streamName, existingEpgId) ==
  IF HasEpgId(existingEpgId)
  THEN [id |-> existingEpgId, via |-> "existing"]
  ELSE LET normalizedName == normalizeForMatch(streamName)
           exact == {i \in 1..Len(channels) : channels[i].normalized = normalizedName}
           kept == IF call.via = "fuzzy" THEN Len(normalizeEpgId(call.id)) ELSE 0
           best == FuzzyLoop(channels, normalizedName, 1, 0, kept)
       IN IF normalizedName = <<>>
          THEN [id |-> existingEpgId, via |-> "emptyname"]
          ELSE IF exact # {}
               THEN [id |-> channels[Min(exact)].id, via |-> "exact"]
               ELSE IF best # 0
                    THEN [id |-> channels[best].id, via |-> "fuzzy"]
                    ELSE [id |-> existingEpgId, via |-> "nomatch"]

\* the value returned and the return statement that produced it
matchEpgId(channels, streamName, existingEpgId) ==
  IF HasEpgId(existingEpgId)
  THEN [id |-> existingEpgId, via |-> "existing"]
  ELSE LET normalizedName == normalizeForMatch(streamName)
           exact == {i \in 1..Len(channels) : channels[i].normalized = normalizedName}
           best == FuzzyLoop(channels, normalizedName, 1, 0, 0)
       IN IF normalizedName = <<>>
          THEN [id |-> existingEpgId, via |-> "emptyname"]
          ELSE IF exact # {}
               THEN [id |-> channels[Min(exact)].id, via |-> "exact"]
               ELSE IF best # 0
                    THEN [id |-> channels[best].id, via |-> "fuzzy"]
                    ELSE [id |-> existingEpgId, via |-> "nomatch"]

(***************************************************************************)
(* Inputs: channel ids, stream names, documents, upstream catalogs         *)
(***************************************************************************)
ID_TN     == <<"T","N",".","a","r">>
ID_ESPN   == <<"E","S","P","N",".","a","r">>
ID_ESPN2  == <<"E","S","P","N","2">>
ID_ESPN3  == <<"E","S","P","N","3">>
ID_CESPN  == <<"C","a","n","a","l",".","E","S","P","N">>
ID_DOT    == <<".","a","r">>
ID_ESPN2L == <<"e","s","p","n","2">>
ID_X1     == <<"x","1">>
BLANK_ID  == <<" ">>

NAME_ESPN_HD == <<"A","R",":"," ","E","S","P","N"," ","H","D">>
NAME_ESPN2   == <<"E","S","P","N","2">>
NAME_ESPN_2  == <<"E","S","P","N"," ","2">>
NAME_ESPN23  == <<"E","S","P","N","2","3">>
NAME_ESP     == <<"e","s","p">>
NAME_TNX     == <<"T","N","X">>
NAME_TN_HD   == <<"T","N"," ","H","D">>
NAME_HD      == <<"F","H","D">>

DocA == Doc(<< Ch(ID_ESPN, "ESPN"), Ch(ID_ESPN2, "ESPN 2"),
               Ch(ID_ESPN2L, "espn dos") >>,
            << Pr(TRUE, "t1", "t2", ID_ESPN, "News", "") >>)
DocB == Doc(<< Ch(ID_CESPN, "Canal ESPN"), Ch(ID_ESPN3, "ESPN 3") >>,
            << Pr(TRUE, "t2", "t3", ID_ESPN, "", "d"),
               Pr(FALSE, "t1", "t2", ID_ESPN3, "Cup", "") >>)
DocC == Doc(<< Ch(ID_ESPN3, "ESPN 3"), Ch(ID_ESPN2, ""), Ch(ID_TN, "TN"),
               Ch(ID_DOT, "dot") >>, << >>)
DocD == Doc(<< Ch(ID_TN, "Todo Noticias"), Ch(ID_ESPN2, "ESPN 2"),
               Ch(ID_ESPN3, "ESPN 3") >>,
            << Pr(TRUE, "t1", "t3", ID_TN, "TN", "x") >>)
DocE == Doc(<< >>, << >>)

\* the documents source i may serve
SourceDocs(i) == IF i = 1 THEN {DocA} ELSE {DocB}

\* what fetching source i may give; the document of a failed fetch is the
\* body that the source would have served
Outcomes(i) ==
  {[status |-> "ok", doc |-> d] : d \in SourceDocs(i)}
  \cup {[status |-> st, doc |-> DocA] : st \in Statuses(i) \ {"ok"}}

\* what the history variables keep of an outcome
Seen(out) == [ok |-> out.status = "ok", doc |-> out.doc]

Stream(sid, name, epg, cat) ==
  [stream_id |-> sid, name |-> name, epg_channel_id |-> epg, category_id |-> cat]

CatalogA == [categories |-> << [category_id |-> "c1", category_name |-> "Sports"] >>,
             streams |-> << Stream(1, NAME_ESPN_HD, <<>>, "c1"),
                            Stream(2, NAME_ESPN2, ID_X1, "c1") >>]
CatalogB == [categories |-> << [category_id |-> "c1", category_name |-> "Sports"],
                               [category_id |-> "c2", category_name |-> "News"] >>,
             streams |-> << Stream(3, NAME_ESPN_2, BLANK_ID, "c1"),
                            Stream(4, NAME_TNX, <<>>, "c2") >>]

\* what the provider's get_live_categories / get_live_streams may return
Catalogs(p) == IF p = "p1" THEN {CatalogA} ELSE {CatalogB}

Providers == {"p1", "p2"}
Req == {"r1", "r2"}

(***************************************************************************)
(* Bounds of the model                                                     *)
(***************************************************************************)
MaxTicks == 2
MaxPasses == 2
MaxRuns == 2

(***************************************************************************)
(* Program constants                                                       *)
(***************************************************************************)
EPG_CACHE_TTL == 6 * 60 * 60 * 1000
XMLTV_CACHE_TTL == 6 * 60 * 60 * 1000
CACHE_TTL == 5 * 60 * 1000

\* how far the clock may move in one step: a millisecond, just short of the
\* catalog TTL, just short of the EPG TTL
TickSteps == {1, CACHE_TTL - 1, EPG_CACHE_TTL - 1}

(***************************************************************************)
(* State                                                                   *)
(***************************************************************************)
dbvars == <<providers, selections, sessions, task>>

vars == <<now, ticks, epgData, epgFetchedAt, epgFrom, cachedXml,
          cachedAt, xmlFrom, cache, req, call, probe, dbvars>>

Tokens == {"k1", "k2"}
Tasks == {"t1", "t2", "t3"}

\* a call of a db.ts function that has not been made
IdleTask ==
  [pc |-> "idle", fn |-> "none", prov |-> NoProvider, ids |-> <<>>, i |-> 0,
   code |-> NULL, result |-> NULL]

\* the tables after ensureSchema on a new database, no session
InitDb ==
  /\ providers = [p \in Providers |-> NULL]
  /\ selections = {}
  /\ sessions = [k \in Tokens |-> NULL]
  /\ task = [t \in Tasks |-> IdleTask]

NoProbe == [fn |-> "none", done |-> FALSE]

NoCall == [name |-> <<>>, existing |-> <<>>, id |-> <<>>, via |-> "none"]

\* a request that has not arrived; selectedIds, action, categoryId and
\* response are locals of GET of xtream/route.ts; enriched and used are history of the
\* enrichment pass under way: the indices of the streams that matchEpgId was
\* applied to, and the datasets that its calls got from fetchEpgData
IdleReq ==
  [pc |-> "idle", kind |-> "none", prov |-> NoProvider, src |-> 0, acc |-> EmptyAcc,
   got |-> <<>>, ret |-> "none", categories |-> <<>>, streams |-> <<>>,
   idx |-> 0, passes |-> 0, refreshes |-> 0, existing |-> NULL, runs |-> 0,
   enriched |-> {}, used |-> {},
   selectedIds |-> {}, action |-> "none", categoryId |-> "", response |-> NULL,
   xml |-> [channels |-> <<>>, programmes |-> <<>>], result |-> NULL]

\* request r has not arrived yet; the requests arrive in the order r1, r2
CanStart(r) == req[r].pc = "idle" /\ (r = "r1" \/ req["r1"].pc # "idle")

Init ==
  /\ now = 0
  /\ ticks = 0
  /\ epgData = NULL
  /\ epgFetchedAt = 0
  /\ epgFrom = <<>>
  /\ cachedXml = NULL
  /\ cachedAt = 0
  /\ xmlFrom = <<>>
  /\ cache = [p \in Providers |-> NULL]
  /\ req = [r \in Req |-> IdleReq]
  /\ call = NoCall
  /\ probe = NoProbe
  /\ InitDb

\* time passes
Tick ==
  /\ ticks < MaxTicks
  /\ \E d \in TickSteps : now' = now + d
  /\ ticks' = ticks + 1
  /\ UNCHANGED <<epgData, epgFetchedAt, epgFrom, cachedXml, cachedAt,
                 xmlFrom, cache, req, call, probe, dbvars>>

(***************************************************************************)
(* fetchEpgData (EpgCache.get) as called from a request                    *)
(***************************************************************************)
\* EpgFresh that takes a dataset without channels for no dataset
EpgFresh_NonEmpty ==
  /\ epgData # NULL
  /\ Len(epgData.channels) > 0
  /\ now - epgFetchedAt < EPG_CACHE_TTL

\* EpgFresh that never lets a dataset expire
EpgFresh_NoTtl == epgData # NULL

\* if (epgData && Date.now() - epgFetchedAt < EPG_CACHE_TTL) return epgData
EpgFresh == epgData # NULL /\ now - epgFetchedAt < EPG_CACHE_TTL

\* the cache missed: fresh accumulators, the fetch of the first source is
\* issued; ret is where the caller resumes when the dataset is returned
BeginRefresh(rec, ret) ==
  [rec EXCEPT !.pc = "epg_src", !.src = 1, !.acc = EmptyAcc, !.got = <<>>,
              !.ret = ret, !.refreshes = rec.refreshes + 1]

\* enrichStreamsWithEpg returns: getCachedData goes on to store the entry, a
\* caller that only enriches its own array has it back
AfterPass(rec) ==
  [rec EXCEPT !.pc = IF rec.kind = "catalog" THEN "store" ELSE "passed",
              !.idx = 0, !.passes = rec.passes + 1]

\* for (const stream of streams): entering the loop; with no stream the pass
\* is over and its caller resumes
EnterLoop(rec) ==
  IF Len(rec.streams) = 0
  THEN AfterPass([rec EXCEPT !.enriched = {}, !.used = {}])
  ELSE [rec EXCEPT !.pc = "enrich", !.idx = 1, !.enriched = {}, !.used = {}]

\* stream.epg_channel_id = await matchEpgId(stream.name, stream.epg_channel_id)
AssignMatch(rec, channels) ==
  LET st == rec.streams[rec.idx]
  IN [rec EXCEPT !.streams[rec.idx].epg_channel_id =
        matchEpgId(channels, st.name, st.epg_channel_id).id,
                 !.enriched = @ \cup {rec.idx}]

\* const { channels } = await fetchEpgData() in matchEpgId: the dataset that
\* the call of the current iteration got (history: kept for the pass)
Consulted(rec, data) == [rec EXCEPT !.used = @ \cup {data}]

\* NextStream that leaves the loop after the first iteration
NextStream_EndPass(rec) == AfterPass(rec)

\* the next iteration of the loop, or the end of the pass
NextStream(rec) ==
  IF rec.idx + 1 > Len(rec.streams)
  THEN AfterPass(rec)
  ELSE [rec EXCEPT !.pc = "enrich", !.idx = rec.idx + 1]

(***************************************************************************)
(* getCachedData (UpstreamCatalogCache.get)                                *)
(***************************************************************************)
\* CatalogFresh with the comparison turned round
CatalogFresh_Reversed(p) == cache[p] # NULL /\ now - cache[p].fetchedAt > CACHE_TTL

\* existing && Date.now() - existing.fetchedAt < CACHE_TTL
CatalogFresh(p) == cache[p] # NULL /\ now - cache[p].fetchedAt < CACHE_TTL

\* getCachedData(providerId): a fresh entry is returned, otherwise both
\* upstream calls are issued
StartCatalog(r, p) ==
  /\ CanStart(r)
  /\ req' = [req EXCEPT ![r] =
       IF CatalogFresh(p)
       THEN [req[r] EXCEPT !.pc = "done", !.kind = "catalog", !.prov = p,
                           !.result = cache[p]]
       ELSE [req[r] EXCEPT !.pc = "upstream", !.kind = "catalog", !.prov = p,
                           !.existing = cache[p]]]
  /\ UNCHANGED <<now, ticks, epgData, epgFetchedAt, epgFrom, cachedXml,
                 cachedAt, xmlFrom, cache, call, probe, dbvars>>

\* CacheAfterFailure that drops the provider's entry
CacheAfterFailure_Evict(p) == [cache EXCEPT ![p] = NULL]

\* the mapping after Promise.all rejected: nothing is set, nothing is deleted
CacheAfterFailure(p) == cache

\* Promise.all([getLiveCategories, getLiveStreams]) rejects: the error leaves
\* getCachedData
UpstreamFail(r) ==
  /\ req[r].pc = "upstream"
  /\ req' = [req EXCEPT ![r] = [@ EXCEPT !.pc = "error"]]
  /\ cache' = CacheAfterFailure(req[r].prov)
  /\ UNCHANGED <<now, ticks, epgData, epgFetchedAt, epgFrom,
                 cachedXml, cachedAt, xmlFrom, call, probe, dbvars>>

\* Promise.all resolves; enrichStreamsWithEpg(streams) is called and awaits
\* fetchEpgData()
UpstreamDone(r) ==
  /\ req[r].pc = "upstream"
  /\ \E c \in Catalogs(req[r].prov) :
       LET rec == [req[r] EXCEPT !.categories = c.categories, !.streams = c.streams]
       IN req' = [req EXCEPT ![r] =
            IF EpgFresh THEN EnterLoop(rec) ELSE BeginRefresh(rec, "enrich_start")]
  /\ UNCHANGED <<now, ticks, epgData, epgFetchedAt, epgFrom,
                 cachedXml, cachedAt, xmlFrom, cache, call, probe, dbvars>>

\* one iteration of the loop of enrichStreamsWithEpg: matchEpgId returns the
\* existing id, or awaits fetchEpgData() and matches against what it returns
EnrichStep(r) ==
  /\ req[r].pc = "enrich"
  /\ LET rec == req[r]
         st == rec.streams[rec.idx]
     IN req' = [req EXCEPT ![r] =
          IF HasEpgId(st.epg_channel_id)
          THEN NextStream(AssignMatch(rec, <<>>))
          ELSE IF EpgFresh
               THEN NextStream(AssignMatch(Consulted(rec, epgData), epgData.channels))
               ELSE BeginRefresh(rec, "match")]
  /\ UNCHANGED <<now, ticks, epgData, epgFetchedAt, epgFrom,
                 cachedXml, cachedAt, xmlFrom, cache, call, probe, dbvars>>

\* EpgSourceDone that builds the dataset in the slot: what has been read so
\* far is assigned to epgData after every source
EpgSourceDone_InSlot(r) ==
  /\ req[r].pc = "epg_src"
  /\ \E out \in Outcomes(req[r].src) :
       LET rec  == req[r]
           acc2 == FetchSourceInto(rec.acc, out)
           got2 == Append(rec.got, Seen(out))
           data == [channels |-> acc2.channels, programmes |-> acc2.programmes]
           back == [rec EXCEPT !.src = 0, !.acc = EmptyAcc, !.got = <<>>,
                               !.ret = "none", !.pc = "enrich"]
       IN /\ epgData' = data
          /\ epgFetchedAt' = now
          /\ epgFrom' = got2
          /\ req' = [req EXCEPT ![r] =
               IF rec.src < NumSources
               THEN [rec EXCEPT !.src = rec.src + 1, !.acc = acc2, !.got = got2]
               ELSE IF rec.ret = "enrich_start"
                    THEN EnterLoop(back)
                    ELSE NextStream(AssignMatch(Consulted(back, data), data.channels))]
  /\ UNCHANGED <<now, ticks, cachedXml, cachedAt, xmlFrom, cache, call, probe, dbvars>>

\* the fetch of source req[r].src settles and the source is processed; after
\* the last source the dataset is published and the awaiting caller resumes
EpgSourceDone(r) ==
  /\ req[r].pc = "epg_src"
  /\ \E out \in Outcomes(req[r].src) :
       LET rec  == req[r]
           acc2 == FetchSourceInto(rec.acc, out)
           got2 == Append(rec.got, Seen(out))
           data == [channels |-> acc2.channels, programmes |-> acc2.programmes]
           back == [rec EXCEPT !.src = 0, !.acc = EmptyAcc, !.got = <<>>,
                               !.ret = "none", !.pc = "enrich"]
       IN IF rec.src < NumSources
          THEN /\ req' = [req EXCEPT ![r] =
                    [rec EXCEPT !.src = rec.src + 1, !.acc = acc2, !.got = got2]]
               /\ UNCHANGED <<epgData, epgFetchedAt, epgFrom>>
          ELSE /\ epgData' = data
               /\ epgFetchedAt' = now
               /\ epgFrom' = got2
               /\ req' = [req EXCEPT ![r] =
                    IF rec.ret = "enrich_start"
                    THEN EnterLoop(back)
                    ELSE NextStream(AssignMatch(Consulted(back, data), data.channels))]
  /\ UNCHANGED <<now, ticks, cachedXml, cachedAt, xmlFrom, cache, call, probe, dbvars>>

\* StoreEntry that leaves an entry alone which another request stored while
\* this one was fetching
StoreEntry_KeepFresh(r) ==
  /\ req[r].pc = "store"
  /\ LET entry == [categories |-> req[r].categories,
                   streams |-> req[r].streams, fetchedAt |-> now]
     IN /\ cache' = IF CatalogFresh(req[r].prov) THEN cache
                    ELSE [cache EXCEPT ![req[r].prov] = entry]
        /\ req' = [req EXCEPT ![r] = [@ EXCEPT !.pc = "done", !.result = entry]]
  /\ UNCHANGED <<now, ticks, epgData, epgFetchedAt, epgFrom,
                 cachedXml, cachedAt, xmlFrom, call, probe, dbvars>>

\* StoreEntry that also restarts the clock of every other provider's entry
StoreEntry_SharedClock(r) ==
  /\ req[r].pc = "store"
  /\ LET entry == [categories |-> req[r].categories,
                   streams |-> req[r].streams, fetchedAt |-> now]
     IN /\ cache' = [q \in Providers |->
                       IF q = req[r].prov THEN entry
                       ELSE IF cache[q] = NULL THEN NULL
                       ELSE [cache[q] EXCEPT !.fetchedAt = now]]
        /\ req' = [req EXCEPT ![r] = [@ EXCEPT !.pc = "done", !.result = entry]]
  /\ UNCHANGED <<now, ticks, epgData, epgFetchedAt, epgFrom,
                 cachedXml, cachedAt, xmlFrom, call, probe, dbvars>>

\* enrichStreamsWithEpg returned: cache.set(providerId, entry); return entry
StoreEntry(r) ==
  /\ req[r].pc = "store"
  /\ LET entry == [categories |-> req[r].categories,
                   streams |-> req[r].streams, fetchedAt |-> now]
     IN /\ cache' = [cache EXCEPT ![req[r].prov] = entry]
        /\ req' = [req EXCEPT ![r] = [@ EXCEPT !.pc = "done", !.result = entry]]
  /\ UNCHANGED <<now, ticks, epgData, epgFetchedAt, epgFrom,
                 cachedXml, cachedAt, xmlFrom, call, probe, dbvars>>

(***************************************************************************)
(* getMergedEpg (the merged XMLTV endpoint)                                *)
(***************************************************************************)
\* cachedXml && Date.now() - cachedAt < CACHE_TTL
XmlFresh == cachedXml # NULL /\ now - cachedAt < XMLTV_CACHE_TTL

StartXmltv(r) ==
  /\ CanStart(r)
  /\ req' = [req EXCEPT ![r] =
       IF XmlFresh
       THEN [req[r] EXCEPT !.pc = "done", !.kind = "xmltv", !.result = cachedXml]
       ELSE [req[r] EXCEPT !.pc = "xml_src", !.kind = "xmltv", !.src = 1]]
  /\ UNCHANGED <<now, ticks, epgData, epgFetchedAt, epgFrom, cachedXml,
                 cachedAt, xmlFrom, cache, call, probe, dbvars>>

\* MergeSourceInto that leaves out a channel block whose normalized id an
\* earlier block has
MergeSourceInto_Dedupe(xml, out) ==
  IF out.status = "ok"
  THEN [channels |-> xml.channels \o
          SelectSeq(out.doc.channels,
                    LAMBDA c : \A k \in 1..Len(xml.channels) :
                       normalizeEpgId(xml.channels[k].id) # normalizeEpgId(c.id)),
        programmes |-> xml.programmes \o out.doc.programmes]
  ELSE xml

\* one iteration of the source loop of getMergedEpg: the raw channel blocks
\* and the raw programme blocks of the document are appended
MergeSourceInto(xml, out) ==
  IF out.status = "ok"
  THEN [channels |-> xml.channels \o out.doc.channels,
        programmes |-> xml.programmes \o out.doc.programmes]
  ELSE xml

\* the blocks of the merged document in the order of its text: the template
\* puts allChannels.join before allProgrammes.join
Merged(xml) == xml.channels \o xml.programmes

XmlSourceDone(r) ==
  /\ req[r].pc = "xml_src"
  /\ \E out \in Outcomes(req[r].src) :
       LET rec  == req[r]
           xml2 == MergeSourceInto(rec.xml, out)
           got2 == Append(rec.got, Seen(out))
       IN IF rec.src < NumSources
          THEN /\ req' = [req EXCEPT ![r] =
                    [rec EXCEPT !.src = rec.src + 1, !.xml = xml2, !.got = got2]]
               /\ UNCHANGED <<cachedXml, cachedAt, xmlFrom>>
          ELSE /\ cachedXml' = xml2
               /\ cachedAt' = now
               /\ xmlFrom' = got2
               /\ req' = [req EXCEPT ![r] =
                    [IdleReq EXCEPT !.pc = "done", !.kind = "xmltv",
                                    !.result = xml2, !.runs = rec.runs]]
  /\ UNCHANGED <<now, ticks, epgData, epgFetchedAt, epgFrom, cache, call, probe, dbvars>>

Next ==
  \/ Tick
  \/ \E r \in Req : StartCatalog(r, "p1")
  \/ \E r \in Req : UpstreamFail(r)
  \/ \E r \in Req : UpstreamDone(r)
  \/ \E r \in Req : EnrichStep(r)
  \/ \E r \in Req : EpgSourceDone(r)
  \/ \E r \in Req : StoreEntry(r)
  \/ \E r \in Req : StartXmltv(r)
  \/ \E r \in Req : XmlSourceDone(r)

Spec == Init /\ [][Next]_vars

(***************************************************************************)
(* matchEpgId on its own: the dataset is what a refresh published from any *)
(* two source outcomes, and the function is called with any name and any   *)
(* existing id                                                             *)
(***************************************************************************)
MatchDocs == {DocA, DocB, DocC, DocD, DocE}

MatchOutcomes(i) ==
  {[status |-> "ok", doc |-> d] : d \in MatchDocs}
  \cup {[status |-> st, doc |-> DocA] : st \in Statuses(i) \ {"ok"}}

MatchNames == {NAME_ESPN_HD, NAME_ESPN2, NAME_ESPN_2, NAME_ESPN23, NAME_ESP,
               NAME_TNX, NAME_TN_HD, NAME_HD}

MatchExisting == {<<>>, BLANK_ID, ID_X1}

InitMatch ==
  /\ now = 0
  /\ ticks = 0
  /\ \E o1 \in MatchOutcomes(1), o2 \in MatchOutcomes(2) :
       LET acc == FetchSourceInto(FetchSourceInto(EmptyAcc, o1), o2)
       IN /\ epgData = [channels |-> acc.channels, programmes |-> acc.programmes]
          /\ epgFrom = <<Seen(o1), Seen(o2)>>
  /\ epgFetchedAt = 0
  /\ cachedXml = NULL
  /\ cachedAt = 0
  /\ xmlFrom = <<>>
  /\ cache = [p \in Providers |-> NULL]
  /\ req = [r \in Req |-> IdleReq]
  /\ call = NoCall
  /\ probe = NoProbe
  /\ InitDb

\* matchEpgId(streamName, existingEpgId) while the dataset is fresh
Resolve(streamName, existingEpgId) ==
  /\ EpgFresh
  /\ LET m == matchEpgId(epgData.channels, streamName, existingEpgId)
     IN call' = [name |-> streamName, existing |-> existingEpgId,
                 id |-> m.id, via |-> m.via]
  /\ UNCHANGED <<now, ticks, epgData, epgFetchedAt, epgFrom, cachedXml,
                 cachedAt, xmlFrom, cache, req, probe, dbvars>>

NextMatch == \E n \in MatchNames, e \in MatchExisting : Resolve(n, e)

SpecMatch == InitMatch /\ [][NextMatch]_vars

(***************************************************************************)
(* enrichStreamsWithEpg on its own: a caller holds an array of streams and  *)
(* passes it to enrichStreamsWithEpg again and again, while time passes    *)
(* and the dataset is refreshed from whatever the sources then give        *)
(***************************************************************************)
EnrichInputs == {CatalogA.streams, CatalogB.streams}

InitEnrich ==
  /\ now = 0
  /\ ticks = 0
  /\ epgData = NULL
  /\ epgFetchedAt = 0
  /\ epgFrom = <<>>
  /\ cachedXml = NULL
  /\ cachedAt = 0
  /\ xmlFrom = <<>>
  /\ cache = [p \in Providers |-> NULL]
  /\ \E ss \in EnrichInputs :
       req = [r \in Req |->
                IF r = "r1"
                THEN [IdleReq EXCEPT !.pc = "passed", !.kind = "enrich",
                                     !.streams = ss]
                ELSE IdleReq]
  /\ call = NoCall
  /\ probe = NoProbe
  /\ InitDb

\* enrichStreamsWithEpg(streams): await fetchEpgData(), then the loop
EnrichCall(r) ==
  /\ req[r].pc = "passed"
  /\ req[r].passes < MaxPasses
  /\ req' = [req EXCEPT ![r] =
       IF EpgFresh THEN EnterLoop(req[r]) ELSE BeginRefresh(req[r], "enrich_start")]
  /\ UNCHANGED <<now, ticks, epgData, epgFetchedAt, epgFrom, cachedXml,
                 cachedAt, xmlFrom, cache, call, probe, dbvars>>

NextEnrich ==
  \/ Tick
  \/ EnrichCall("r1")
  \/ EnrichStep("r1")
  \/ EpgSourceDone("r1")

SpecEnrich == InitEnrich /\ [][NextEnrich]_vars

\* C1: across enrichStreamsWithEpg passes and dataset refreshes, a stream
\* whose epg_channel_id is non-empty after trimming keeps exactly that value
\* in every later step.
C1_NonEmptyIdKept ==
  [][\A r \in Req : \A i \in 1..Len(req[r].streams) :
       (/\ Len(req'[r].streams) = Len(req[r].streams)
        /\ Trim(req[r].streams[i].epg_channel_id) # <<>>)
         => req'[r].streams[i].epg_channel_id = req[r].streams[i].epg_channel_id
    ]_vars

\* two passes are over and a stream holds an id although the dataset now
\* published would give its name another id
C1_Witness ==
  /\ req["r1"].pc = "passed"
  /\ req["r1"].passes = 2
  /\ epgData # NULL
  /\ \E i \in 1..Len(req["r1"].streams) :
       LET st == req["r1"].streams[i]
           other == matchEpgId(epgData.channels, st.name, <<>>)
       IN /\ Trim(st.epg_channel_id) # <<>>
          /\ other.via \in {"exact", "fuzzy"}
          /\ other.id # st.epg_channel_id
          /\ st.epg_channel_id # ID_X1

(***************************************************************************)
(* Properties of matchEpgId (checked under SpecMatch)                      *)
(***************************************************************************)
CallMade == call.via # "none"
CallName == normalizeForMatch(call.name)
Chans == epgData.channels
\* the channels whose normalized id equals the normalized stream name
ExactSet == {i \in 1..Len(Chans) : Chans[i].normalized = CallName}
\* the channels the fuzzy phase considers
Candidates ==
  {i \in 1..Len(Chans) :
     /\ Len(Chans[i].normalized) >= 4
     /\ \/ Includes(CallName, Chans[i].normalized)
        \/ Includes(Chans[i].normalized, CallName)}
\* the call went past the exact phase without a match
FuzzyPhase ==
  /\ CallMade
  /\ Trim(call.existing) = <<>>
  /\ CallName # <<>>
  /\ ExactSet = {}

\* C2 as stated: with an empty existingEpgId, if some channel's normalizedId
\* equals the normalized stream name, the id returned is that channel's id.
C2_AsStated ==
  (CallMade /\ call.existing = <<>>)
    => \A i \in ExactSet : call.id = Chans[i].id

\* C2 (amended): with an empty existingEpgId and a non-empty normalized
\* stream name, if some channel's normalizedId equals the normalized stream
\* name, the id returned is that channel's id, never a fuzzy candidate's.
C2_ExactPrecedence ==
  (CallMade /\ call.existing = <<>> /\ CallName # <<>>)
    => \A i \in ExactSet : call.id = Chans[i].id

\* an exact match was returned although a longer channel contains the name
C2_Witness ==
  /\ CallMade /\ call.existing = <<>> /\ CallName # <<>>
  /\ ExactSet # {}
  /\ \E j \in Candidates : Len(Chans[j].normalized) > Len(CallName)
  /\ call.id = Chans[Min(ExactSet)].id

\* C3: in the fuzzy phase the channel returned is a candidate of maximum
\* normalizedId length, and among those the earliest in dataset order.
C3_LongestFirstWins ==
  (FuzzyPhase /\ Candidates # {})
    => LET maxLen == Max({Len(Chans[i].normalized) : i \in Candidates})
           best == Min({i \in Candidates : Len(Chans[i].normalized) = maxLen})
       IN call.id = Chans[best].id

\* two candidates of the same, maximum length and a shorter one: the first
\* of the two longest was returned
C3_Witness ==
  /\ FuzzyPhase
  /\ \E i \in Candidates, j \in Candidates, k \in Candidates :
       /\ i < j
       /\ Len(Chans[i].normalized) = Len(Chans[j].normalized)
       /\ Len(Chans[k].normalized) < Len(Chans[i].normalized)
       /\ \A m \in Candidates : Len(Chans[m].normalized) <= Len(Chans[i].normalized)
       /\ call.id = Chans[i].id

\* C4: a channel whose normalizedId has 3 or fewer characters is never the
\* result of the fuzzy phase.
C4_LengthFloor ==
  FuzzyPhase
    => \A i \in 1..Len(Chans) :
         Len(Chans[i].normalized) <= 3 => call.id # Chans[i].id

\* the fuzzy phase ran on a dataset with a short channel that is a substring
\* of the normalized stream name
C4_Witness ==
  /\ FuzzyPhase
  /\ \E i \in 1..Len(Chans) :
       /\ Len(Chans[i].normalized) \in 1..3
       /\ Includes(CallName, Chans[i].normalized)

\* C5: matchEpgId returns existingEpgId unchanged when the normalized stream
\* name is empty (whatever the dataset holds) and when no channel qualifies in
\* the exact or the fuzzy phase.
C5_NoMatchKeepsExisting ==
  CallMade
    => /\ (CallName = <<>>) => call.id = call.existing
       /\ (ExactSet = {} /\ Candidates = {}) => call.id = call.existing

\* an empty normalized name on a dataset that holds a channel with an empty
\* normalizedId: the (blank) existing id came back
C5_Witness ==
  /\ CallMade
  /\ CallName = <<>>
  /\ call.existing = BLANK_ID
  /\ call.id = BLANK_ID
  /\ \E i \in 1..Len(Chans) : Chans[i].normalized = <<>>

(***************************************************************************)
(* Properties of the refreshes and of the two TTL caches (checked under    *)
(* Spec)                                                                   *)
(***************************************************************************)
\* the documents of the sources that succeeded, in source order
RECURSIVE OkDocs(_, _)
OkDocs(from, k) ==
  IF k > Len(from) THEN <<>>
  ELSE (IF from[k].ok THEN <<from[k].doc>> ELSE <<>>) \o OkDocs(from, k + 1)

\* the channel declarations the parser finds in these documents, in source
\* order then document order
RECURSIVE Declared(_, _)
Declared(docs, k) ==
  IF k > Len(docs) THEN <<>>
  ELSE ScanChannels(docs[k].channels, 1) \o Declared(docs, k + 1)

AllFailed(from) == Len(from) = NumSources /\ \A k \in 1..Len(from) : ~from[k].ok

\* the ids the source documents declare, each with its normalizedId
DeclaredIds ==
  UNION {{d.channels[k].id : k \in 1..Len(d.channels)} :
           d \in UNION {SourceDocs(i) : i \in 1..NumSources}}

NormalizedIdOf == [id \in DeclaredIds |-> normalizeEpgId(id)]

\* C6: in every published dataset no two channels have the same
\* normalizedId, and for each normalizedId the channel kept is the first
\* declaration with it in source order then document order; every later
\* declaration with that normalizedId is dropped.
C6_FirstSeenWins ==
  epgData # NULL =>
    LET recs == Declared(OkDocs(epgFrom, 1), 1)
        chs == epgData.channels
        norm(k) == NormalizedIdOf[recs[k].id]
        first(k) == Min({j \in 1..Len(recs) : norm(j) = norm(k)})
    IN /\ \A i \in 1..Len(chs), j \in 1..Len(chs) :
            i # j => chs[i].normalized # chs[j].normalized
       /\ Len(chs) = Cardinality({norm(k) : k \in 1..Len(recs)})
       /\ \A k \in 1..Len(recs) :
            \E i \in 1..Len(chs) :
              /\ chs[i].normalized = norm(k)
              /\ chs[i].id = recs[first(k)].id
              /\ chs[i].displayName = recs[first(k)].displayName

\* both sources were read: a second declaration of the first document and a
\* declaration of the second document were dropped for an earlier one
C6_Witness ==
  /\ epgData # NULL
  /\ Len(OkDocs(epgFrom, 1)) = 2
  /\ \E i \in 1..Len(epgData.channels) : epgData.channels[i].id = ID_ESPN
  /\ \E i \in 1..Len(epgData.channels) : epgData.channels[i].id = ID_ESPN2
  /\ \A i \in 1..Len(epgData.channels) :
       epgData.channels[i].id \notin {ID_CESPN, ID_ESPN2L}

\* the dataset fetchEpgData builds from these documents alone
RECURSIVE ParseAll(_, _, _)
ParseAll(acc, docs, k) ==
  IF k > Len(docs) THEN acc ELSE ParseAll(ParseSource(acc, docs[k]), docs, k + 1)

\* the blocks getMergedEpg collects from these documents alone
RECURSIVE ConcatBlocks(_, _)
ConcatBlocks(docs, k) ==
  IF k > Len(docs) THEN [channels |-> <<>>, programmes |-> <<>>]
  ELSE LET rest == ConcatBlocks(docs, k + 1)
       IN [channels |-> docs[k].channels \o rest.channels,
           programmes |-> docs[k].programmes \o rest.programmes]

\* the sequences of documents a refresh may have read, each with the dataset
\* fetchEpgData builds from it
DocSeqs ==
  {<<>>} \cup {<<a>> : a \in SourceDocs(1)} \cup {<<b>> : b \in SourceDocs(2)}
         \cup {<<a, b>> : a \in SourceDocs(1), b \in SourceDocs(2)}

DatasetOf == [docs \in DocSeqs |-> ParseAll(EmptyAcc, docs, 1)]

\* C7: a source that fails is skipped and contributes nothing; the refresh
\* ends without an error for its caller and publishes the merge of exactly
\* the sources that succeeded, the empty dataset when none did.
C7_FailedSourcesSkipped ==
  /\ [](epgData # NULL =>
          LET acc == DatasetOf[OkDocs(epgFrom, 1)]
          IN /\ epgData.channels = acc.channels
             /\ epgData.programmes = acc.programmes
             /\ AllFailed(epgFrom) => epgData.channels = <<>>)
  /\ [](cachedXml # NULL =>
          /\ cachedXml = ConcatBlocks(OkDocs(xmlFrom, 1), 1)
          /\ AllFailed(xmlFrom) => cachedXml.channels = <<>>)
  /\ [][\A r \in Req :
          req[r].pc \in {"epg_src", "xml_src"}
            => /\ req'[r].pc # "error"
               /\ (req[r].src = NumSources /\ req'[r] # req[r])
                    => req'[r].pc \notin {"epg_src", "xml_src"}
     ]_vars

\* the first source failed, the second was read, and the dataset and the
\* merged document hold what the second gave
C7_Witness ==
  /\ epgData # NULL /\ cachedXml # NULL
  /\ ~epgFrom[1].ok /\ epgFrom[2].ok
  /\ ~xmlFrom[1].ok /\ xmlFrom[2].ok
  /\ Len(epgData.channels) = 2
  /\ cachedXml.channels = DocB.channels

\* request r calls fetchEpgData() in this step
CallsEpg(r) ==
  \/ req[r].pc = "upstream" /\ req'[r].pc \notin {"upstream", "error"}
  \/ /\ req[r].pc = "enrich"
     /\ req'[r] # req[r]
     /\ Trim(req[r].streams[req[r].idx].epg_channel_id) = <<>>

\* request r calls getCachedData(p) in this step
CallsCatalog(r, p) ==
  req[r].pc = "idle" /\ req'[r].kind = "catalog" /\ req'[r].prov = p

\* C8: a get() on an entry fetched at T returns the existing entry unchanged
\* without any upstream fetch at any request time before T+TTL, and starts a
\* refresh when the entry is missing or the request time is after T+TTL (EPG
\* dataset: 6 hours; provider catalog: 5 minutes per entry).
C8_TtlBoundary ==
  [][/\ \A r \in Req :
          CallsEpg(r) =>
            /\ (epgData # NULL /\ now < epgFetchedAt + 6 * 60 * 60 * 1000)
                 => /\ req'[r].pc # "epg_src"
                    /\ epgData' = epgData
                    /\ epgFetchedAt' = epgFetchedAt
            /\ (epgData = NULL \/ now > epgFetchedAt + 6 * 60 * 60 * 1000)
                 => req'[r].pc = "epg_src" /\ req'[r].src = 1
     /\ \A r \in Req, p \in Providers :
          CallsCatalog(r, p) =>
            /\ (cache[p] # NULL /\ now < cache[p].fetchedAt + 5 * 60 * 1000)
                 => /\ req'[r].pc = "done"
                    /\ req'[r].result = cache[p]
                    /\ cache' = cache
            /\ (cache[p] = NULL \/ now > cache[p].fetchedAt + 5 * 60 * 1000)
                 => req'[r].pc = "upstream"
    ]_vars

\* the second request found the catalog entry older than 5 minutes and
\* fetched the catalog again, then found the dataset one millisecond short
\* of 6 hours old and used it without a refresh
C8_Witness ==
  /\ req["r1"].pc = "done" /\ req["r1"].kind = "catalog"
  /\ req["r2"].pc = "enrich" /\ req["r2"].refreshes = 0
  /\ cache["p1"] # NULL
  /\ now > cache["p1"].fetchedAt + CACHE_TTL
  /\ epgData # NULL
  /\ now = epgFetchedAt + EPG_CACHE_TTL - 1

\* C9: after a refresh in which every source fails, the empty dataset is
\* stored with the time of the refresh, and no later call starts fetching
\* the sources until 6 hours have passed since that time.
C9_EmptyDatasetCached ==
  /\ []((epgData # NULL /\ AllFailed(epgFrom))
          => /\ epgData.channels = <<>>
             /\ DOMAIN epgData.programmes = {}
             /\ epgFetchedAt <= now)
  /\ [][/\ (epgFrom' # epgFrom \/ epgData' # epgData) => epgFetchedAt' = now
        /\ (/\ epgData # NULL
            /\ AllFailed(epgFrom)
            /\ now < epgFetchedAt + EPG_CACHE_TTL)
             => \A r \in Req : req[r].pc # "epg_src" => req'[r].pc # "epg_src"
     ]_vars

\* the first request's refresh failed on both sources; the second request
\* asked for the dataset at least 5 minutes later and was given the empty
\* dataset without a fetch
C9_Witness ==
  /\ epgData # NULL /\ AllFailed(epgFrom)
  /\ req["r1"].refreshes = 1
  /\ req["r2"].pc = "enrich" /\ req["r2"].refreshes = 0
  /\ now >= epgFetchedAt + CACHE_TTL
  /\ now < epgFetchedAt + EPG_CACHE_TTL

\* request r's upstream fetch fails in this step
FailsUpstream(r) == req[r].pc = "upstream" /\ req'[r].pc = "error"

StaleAt(entry, t) == entry # NULL /\ t >= entry.fetchedAt + CACHE_TTL

\* C10 as stated: when the upstream fetch fails the error reaches the
\* caller, nothing of the attempt is stored, no stale entry of the provider
\* stays in the mapping, and the next get for the provider fetches again.
C10_AsStated ==
  [][/\ \A r \in Req :
          FailsUpstream(r) =>
            /\ cache'[req[r].prov] \in {NULL, cache[req[r].prov]}
            /\ ~StaleAt(cache'[req[r].prov], now)
     /\ \A r \in Req, q \in Req :
          (req[r].pc = "error" /\ CallsCatalog(q, req[r].prov))
            => req'[q].pc = "upstream"
    ]_vars

\* C10 (amended): when the upstream fetch fails the error reaches the
\* caller, the call ends there without another attempt, and the mapping is
\* left exactly as it was: nothing of the attempt is stored and an entry the
\* provider already has, stale or not, stays; a later get for the provider
\* that finds no fresh entry fetches again.
C10_FailureLeavesCache ==
  [][/\ \A r \in Req :
          FailsUpstream(r) => cache' = cache
     /\ \A r \in Req :
          req[r].pc = "error" => req'[r] = req[r]
     /\ \A r \in Req, q \in Req :
          (/\ req[r].pc = "error"
           /\ CallsCatalog(q, req[r].prov)
           /\ (cache[req[r].prov] = NULL \/ StaleAt(cache[req[r].prov], now)))
            => req'[q].pc = "upstream"
    ]_vars

\* the second request's upstream fetch failed while the mapping held the
\* entry the first request had stored more than 5 minutes before
C10_Witness ==
  /\ req["r1"].pc = "done" /\ req["r1"].kind = "catalog"
  /\ req["r2"].pc = "error"
  /\ req["r2"].prov = "p1"
  /\ StaleAt(cache["p1"], now)
  /\ cache["p1"] = req["r1"].result

(***************************************************************************)
(* What a catalog request gives its caller (checked under Spec)            *)
(***************************************************************************)
\* C11: a catalog request for a provider that has a cache entry, even a
\* stale one, is always served from that entry; an error reaches the caller
\* only when the provider has no entry and the upstream fetch fails.
C11_AsStated ==
  [][\A r \in Req : FailsUpstream(r) => req[r].existing = NULL]_vars

(***************************************************************************)
(* Catalog requests for two providers, one after the other: the client     *)
(* that has had its response sends the next request                        *)
(***************************************************************************)
\* the response of request r has been sent; the next request may arrive
NextRequest(r) ==
  /\ req[r].pc \in {"done", "error"}
  /\ req[r].runs < MaxRuns
  /\ req' = [req EXCEPT ![r] = [IdleReq EXCEPT !.runs = req[r].runs + 1]]
  /\ UNCHANGED <<now, ticks, epgData, epgFetchedAt, epgFrom, cachedXml,
                 cachedAt, xmlFrom, cache, call, probe, dbvars>>

NextProviders ==
  \/ Tick
  \/ \E p \in Providers : StartCatalog("r1", p)
  \/ UpstreamFail("r1")
  \/ UpstreamDone("r1")
  \/ EnrichStep("r1")
  \/ EpgSourceDone("r1")
  \/ StoreEntry("r1")
  \/ NextRequest("r1")

SpecProviders == Init /\ [][NextProviders]_vars

\* the provider whose get request r takes a step of
GetOf(r) == IF req[r].pc = "idle" THEN req'[r].prov ELSE req[r].prov

\* C12: every step of a get for provider A (a hit, a refresh that succeeds,
\* a refresh that fails) leaves the entry of every other provider B as it
\* was, fetchedAt included; and a get for B is a hit exactly when B's own
\* entry exists and is younger than the TTL, whatever the other entries are.
C12_ProvidersIndependent ==
  [][/\ \A r \in Req, B \in Providers :
          (req'[r] # req[r] /\ GetOf(r) # B) => cache'[B] = cache[B]
     /\ \A r \in Req, B \in Providers :
          CallsCatalog(r, B) =>
            (req'[r].pc = "done"
               <=> (cache[B] # NULL /\ now - cache[B].fetchedAt < CACHE_TTL))
    ]_vars

\* p2's entry was stored first and p1's later; a get for p2 now finds p2's
\* entry stale and fetches upstream, while p1's entry is still fresh
C12_Witness ==
  /\ req["r1"].pc = "upstream"
  /\ req["r1"].prov = "p2"
  /\ req["r1"].existing # NULL
  /\ cache["p2"] = req["r1"].existing
  /\ cache["p1"] # NULL
  /\ now - cache["p1"].fetchedAt < CACHE_TTL
  /\ cache["p2"].fetchedAt < cache["p1"].fetchedAt

(***************************************************************************)
(* xmltvTimeToEpoch on its own: called with any of these strings           *)
(***************************************************************************)
TimeYears == {<<"1","9","7","0">>, <<"2","0","2","6">>}
TimeMonths == {<<"0","1">>, <<"1","2">>, <<"1","3">>, <<"0","0">>}
TimeDays == {<<"0","1">>, <<"3","1">>, <<"0","0">>, <<"3","2">>}
TimeHours == {<<"0","0">>, <<"2","3">>, <<"2","4">>, <<"2","5">>}
TimeMinutes == {<<"0","0">>, <<"5","9">>, <<"6","0">>}
TimeSeconds == {<<"0","0">>, <<"5","9">>}
TimeOffsets == {<<>>, <<" ","+","0","0","0","0">>, <<" ","-","0","3","0","0">>,
                <<"+","0","5","3","0">>}

\* strings without 14 digits in a row, and one with text before the digits
TimeOthers ==
  {<<>>,
   <<"n","o","t","-","a","-","d","a","t","e">>,
   <<"2","0","2","6","0","2","1","4","1","8">>,
   <<"2","0","2","6","-","0","2","-","1","4"," ","1","8",":","0","0">>,
   <<"x","1","9","7","0","0","1","0","1","0","0","0","1","0","0">>}

TimeInputs ==
  {y \o m \o d \o h \o mi \o sec \o z :
     y \in TimeYears, m \in TimeMonths, d \in TimeDays, h \in TimeHours,
     mi \in TimeMinutes, sec \in TimeSeconds, z \in TimeOffsets}
  \cup TimeOthers

\* a call that is about to be made, and the call when it has returned
Pending(fn, arg) == [fn |-> fn, arg |-> arg, done |-> FALSE, out |-> NULL]
Returned(p, out) == [p EXCEPT !.done = TRUE, !.out = out]

InitTime ==
  /\ now = 0
  /\ ticks = 0
  /\ epgData = NULL
  /\ epgFetchedAt = 0
  /\ epgFrom = <<>>
  /\ cachedXml = NULL
  /\ cachedAt = 0
  /\ xmlFrom = <<>>
  /\ cache = [p \in Providers |-> NULL]
  /\ req = [r \in Req |-> IdleReq]
  /\ call = NoCall
  /\ \E t \in TimeInputs : probe = Pending("xmltvTimeToEpoch", t)
  /\ InitDb

ParseTime ==
  /\ probe.fn = "xmltvTimeToEpoch"
  /\ ~probe.done
  /\ probe' = Returned(probe, xmltvTimeToEpoch(probe.arg))
  /\ UNCHANGED <<now, ticks, epgData, epgFetchedAt, epgFrom, cachedXml,
                 cachedAt, xmlFrom, cache, req, call, dbvars>>

NextTime == ParseTime

SpecTime == InitTime /\ [][NextTime]_vars

\* the string is 14 digits, then nothing or white space and a sign and 4
\* digits, and nothing else
TimeConforms(t) ==
  /\ DigitsAt(t, 1, 14)
  /\ \/ Len(t) = 14
     \/ LET j == SkipSpaces(t, 15)
        IN /\ j + 4 = Len(t)
           /\ t[j] \in {"+", "-"}
           /\ DigitsAt(t, j + 1, 4)

IsLeap(y) == (y % 4 = 0 /\ y % 100 # 0) \/ y % 400 = 0
DaysIn(y, m) ==
  IF m = 2 THEN (IF IsLeap(y) THEN 29 ELSE 28)
  ELSE IF m \in {4, 6, 9, 11} THEN 30 ELSE 31

\* the 14 digits of a conforming string are a date and a time of day
TimeInRange(t) ==
  /\ Num2(t, 5) \in 1..12
  /\ Num2(t, 7) \in 1..DaysIn(Num4(t, 1), Num2(t, 5))
  /\ Num2(t, 9) \in 0..23
  /\ Num2(t, 11) \in 0..59
  /\ Num2(t, 13) \in 0..59

\* C13: xmltvTimeToEpoch returns exactly 0 for every malformed input and for
\* every input whose 14 digits are out of range as a date and time.
C13_AsStated ==
  (/\ probe.fn = "xmltvTimeToEpoch"
   /\ probe.done
   /\ (~TimeConforms(probe.arg) \/ ~TimeInRange(probe.arg)))
    => probe.out = Num(0)

(***************************************************************************)
(* getEpgListings                                                          *)
(***************************************************************************)
\* a > b and a < b of JavaScript numbers: false when either is NaN
Greater(a, b) == ~a.nan /\ ~b.nan /\ a.val > b.val
Less(a, b) == ~a.nan /\ ~b.nan /\ a.val < b.val
LessEq(a, b) == ~a.nan /\ ~b.nan /\ a.val <= b.val

\* Number.prototype.toString of a whole number or of NaN
RECURSIVE DigitsOf(_)
DigitsOf(n) ==
  IF n < 10 THEN <<DigitSeq[n + 1]>>
  ELSE Append(DigitsOf(n \div 10), DigitSeq[(n % 10) + 1])

NumToString(x) ==
  IF x.nan THEN <<"N","a","N">>
  ELSE IF x.val < 0 THEN <<"-">> \o DigitsOf(-x.val)
  ELSE DigitsOf(x.val)

\* InWindow with the two bounds taken in
InWindow_Inclusive(p, nowSec) ==
  /\ LessEq(Num(nowSec - 7200), xmltvTimeToEpoch(p.stop))
  /\ LessEq(xmltvTimeToEpoch(p.start), Num(nowSec + 43200))

\* the filter callback: stop > now - 7200 && start < now + 43200
InWindow(p, nowSec) ==
  /\ Greater(xmltvTimeToEpoch(p.stop), Num(nowSec - 7200))
  /\ Less(xmltvTimeToEpoch(p.start), Num(nowSec + 43200))

\* the map callback; title and description, which are the base64 encodings
\* of the programme's, are left out of the record
ToListing(p, epgChannelId, nowSec) ==
  LET start == xmltvTimeToEpoch(p.start)
      stop  == xmltvTimeToEpoch(p.stop)
  IN [id |-> "", epg_id |-> epgChannelId, lang |-> "es",
      start |-> NumToString(start), end |-> NumToString(stop),
      channel_id |-> epgChannelId,
      start_timestamp |-> NumToString(start),
      stop_timestamp |-> NumToString(stop),
      now_playing |-> IF LessEq(start, Num(nowSec)) /\ Greater(stop, Num(nowSec))
                      THEN 1 ELSE 0,
      has_archive |-> 0]

\* getEpgListings(epgChannelId) on the programmes fetchEpgData returned, at
\* Date.now() = nowMs
getEpgListings(programmes, epgChannelId, nowMs) ==
  IF epgChannelId \notin DOMAIN programmes THEN <<>>
  ELSE LET progs  == programmes[epgChannelId]
           nowSec == nowMs \div 1000
           kept   == SelectSeq(progs, LAMBDA p : InWindow(p, nowSec))
       IN [k \in 1..Len(kept) |-> ToListing(kept[k], epgChannelId, nowSec)]

(***************************************************************************)
(* getEpgListings on its own: the dataset holds the programmes of one      *)
(* channel, with any two or fewer of these times, and the function is      *)
(* called for that channel or for another at one of these clock values     *)
(***************************************************************************)
\* YYYYMMDDHHmmss on 1970-01-01
Stamp(h, mi, sec) == <<"1","9","7","0","0","1","0","1">> \o h \o mi \o sec

D00 == <<"0","0">>
ListingTimes ==
  {[start |-> Stamp(<<"0","6">>, D00, D00), stop |-> Stamp(<<"0","8">>, D00, D00)],
   [start |-> Stamp(<<"0","7">>, D00, D00), stop |-> Stamp(<<"0","8">>, D00, <<"0","1">>)],
   [start |-> Stamp(<<"0","9">>, <<"3","0">>, D00), stop |-> Stamp(<<"1","0">>, <<"3","0">>, D00)],
   [start |-> Stamp(<<"2","1">>, <<"5","9">>, <<"5","9">>), stop |-> Stamp(<<"2","3">>, D00, D00)],
   [start |-> Stamp(<<"2","2">>, D00, D00), stop |-> Stamp(<<"2","3">>, D00, D00)],
   [start |-> Stamp(<<"2","3">>, D00, D00) \o <<" ","+","0","1","0","0">>,
    stop |-> Stamp(<<"2","3">>, <<"3","0">>, D00)],
   [start |-> <<"n","o","t","-","a","-","d","a","t","e">>,
    stop |-> Stamp(<<"1","2">>, D00, D00)],
   [start |-> Stamp(<<"1","1">>, D00, D00), stop |-> Stamp(<<"2","5">>, D00, D00)]}

ListingProgrammes ==
  {<<>>} \cup {<<Pr(TRUE, a.start, a.stop, ID_ESPN, "A", "")>> : a \in ListingTimes}
         \cup {<<Pr(TRUE, a.start, a.stop, ID_ESPN, "A", ""),
                 Pr(TRUE, b.start, b.stop, ID_ESPN, "B", "")>> :
                 a \in ListingTimes, b \in ListingTimes}

\* 10:00:00 and 10:00:00.999 on 1970-01-01, in milliseconds
ListingClocks == {36000 * 1000, 36000 * 1000 + 999}

ListingIds == {ID_ESPN, ID_TN}

InitListings ==
  /\ now \in ListingClocks
  /\ ticks = 0
  /\ \E prs \in ListingProgrammes :
       LET o1 == [status |-> "ok", doc |-> Doc(<<Ch(ID_ESPN, "ESPN")>>, prs)]
           o2 == [status |-> "http", doc |-> DocE]
           acc == FetchSourceInto(FetchSourceInto(EmptyAcc, o1), o2)
       IN /\ epgData = [channels |-> acc.channels, programmes |-> acc.programmes]
          /\ epgFrom = <<Seen(o1), Seen(o2)>>
  /\ epgFetchedAt = now
  /\ cachedXml = NULL
  /\ cachedAt = 0
  /\ xmlFrom = <<>>
  /\ cache = [p \in Providers |-> NULL]
  /\ req = [r \in Req |-> IdleReq]
  /\ call = NoCall
  /\ \E id \in ListingIds : probe = Pending("getEpgListings", id)
  /\ InitDb

\* getEpgListings(epgChannelId) while the dataset is fresh
Listings ==
  /\ probe.fn = "getEpgListings"
  /\ ~probe.done
  /\ EpgFresh
  /\ probe' = Returned(probe, getEpgListings(epgData.programmes, probe.arg, now))
  /\ UNCHANGED <<now, ticks, epgData, epgFetchedAt, epgFrom, cachedXml,
                 cachedAt, xmlFrom, cache, req, call, dbvars>>

NextListings == Listings

SpecListings == InitListings /\ [][NextListings]_vars

\* the programmes the dataset holds for the channel of the call
ListedProgs ==
  IF probe.arg \in DOMAIN epgData.programmes
  THEN epgData.programmes[probe.arg] ELSE <<>>

\* programme k has a stop after now - 2h and a start before now + 12h, the
\* times being the parsed epoch seconds (a time that is not a number is
\* neither before nor after)
Selected(k) ==
  LET start == xmltvTimeToEpoch(ListedProgs[k].start)
      stop  == xmltvTimeToEpoch(ListedProgs[k].stop)
      nowSec == now \div 1000
  IN /\ ~start.nan /\ ~stop.nan
     /\ stop.val > nowSec - 7200
     /\ start.val < nowSec + 43200

SelectedSet == {k \in 1..Len(ListedProgs) : Selected(k)}

\* C14: getEpgListings returns exactly the programmes of the channel with
\* stop > now - 7200 and start < now + 43200, in their order: one that ended
\* at or before now - 2h or starts at or after now + 12h is left out and
\* every other one is returned.
C14_WindowSelection ==
  (probe.fn = "getEpgListings" /\ probe.done) =>
    /\ Len(probe.out) = Cardinality(SelectedSet)
    /\ \A j \in 1..Len(probe.out) :
         \E k \in SelectedSet :
           /\ Cardinality({i \in SelectedSet : i <= k}) = j
           /\ probe.out[j].start = NumToString(xmltvTimeToEpoch(ListedProgs[k].start))
           /\ probe.out[j].end = NumToString(xmltvTimeToEpoch(ListedProgs[k].stop))
           /\ probe.out[j].epg_id = probe.arg

\* a programme that ended exactly at now - 2h was left out and one that
\* ends a second later was returned
C14_Witness ==
  /\ probe.fn = "getEpgListings" /\ probe.done
  /\ Len(ListedProgs) = 2
  /\ xmltvTimeToEpoch(ListedProgs[1].stop) = Num(now \div 1000 - 7200)
  /\ xmltvTimeToEpoch(ListedProgs[2].stop) = Num(now \div 1000 - 7199)
  /\ Len(probe.out) = 1
  /\ probe.out[1].end = NumToString(Num(now \div 1000 - 7199))

(***************************************************************************)
(* normalizeForMatch on its own: called with any of these names, and again *)
(* with what it returned                                                   *)
(***************************************************************************)
NormPrefixes == {<<>>, <<"A","R",":"," ">>, <<"L","A"," ">>,
                 <<"c","a","n","a","l",".">>, <<"a","r">>}
NormBodies == {<<"E","S","P","N">>, <<"L","A"," ","T","V">>, <<"T","N">>,
               <<"H","H","D","D">>, <<"T","&","C">>, <<"A",".","B">>,
               <<"A","R","T","E">>}
NormSuffixes == {<<>>, <<" ","H","D">>, <<" ","(","x",")">>,
                 <<" ","F","H","D"," ","2">>}

NormInputs ==
  {a \o b \o c : a \in NormPrefixes, b \in NormBodies, c \in NormSuffixes}

InitNorm ==
  /\ now = 0
  /\ ticks = 0
  /\ epgData = NULL
  /\ epgFetchedAt = 0
  /\ epgFrom = <<>>
  /\ cachedXml = NULL
  /\ cachedAt = 0
  /\ xmlFrom = <<>>
  /\ cache = [p \in Providers |-> NULL]
  /\ req = [r \in Req |-> IdleReq]
  /\ call = NoCall
  /\ \E x \in NormInputs : probe = Pending("normalizeForMatch", x)
  /\ InitDb

NormalizeTwice ==
  /\ probe.fn = "normalizeForMatch"
  /\ ~probe.done
  /\ LET once == normalizeForMatch(probe.arg)
     IN probe' = Returned(probe, [once |-> once, twice |-> normalizeForMatch(once)])
  /\ UNCHANGED <<now, ticks, epgData, epgFetchedAt, epgFrom, cachedXml,
                 cachedAt, xmlFrom, cache, req, call, dbvars>>

NextNorm == NormalizeTwice

SpecNorm == InitNorm /\ [][NextNorm]_vars

\* C15: normalizeForMatch is idempotent: applied to its own output it gives
\* that output again, for every input.
C15_AsStated ==
  (probe.fn = "normalizeForMatch" /\ probe.done) => probe.out.twice = probe.out.once

(***************************************************************************)
(* matchEpgId called again and again on one dataset: one earlier call is   *)
(* remembered, with whether other calls were made since                    *)
(***************************************************************************)
RepeatNames == {NAME_ESPN_2, NAME_ESPN23, NAME_ESPN_HD}
RepeatExisting == {<<>>, ID_X1}

\* the call last made, as a call to remember
LastCall ==
  [fn |-> "matchEpgId", done |-> TRUE,
   arg |-> [name |-> call.name, existing |-> call.existing,
            channels |-> epgData.channels],
   out |-> call.id, between |-> FALSE]

\* matchEpgId(streamName, existingEpgId) while the dataset is fresh
ResolveAgain(streamName, existingEpgId) ==
  /\ EpgFresh
  /\ LET m == matchEpgId(epgData.channels, streamName, existingEpgId)
     IN call' = [name |-> streamName, existing |-> existingEpgId,
                 id |-> m.id, via |-> m.via]
  /\ \/ call.via # "none" /\ probe' = LastCall
     \/ probe.fn = "matchEpgId" /\ probe' = [probe EXCEPT !.between = TRUE]
     \/ probe.fn = "none" /\ probe' = probe
  /\ UNCHANGED <<now, ticks, epgData, epgFetchedAt, epgFrom, cachedXml,
                 cachedAt, xmlFrom, cache, req, dbvars>>

NextRepeat == \E n \in RepeatNames, e \in RepeatExisting : ResolveAgain(n, e)

SpecRepeat == InitMatch /\ [][NextRepeat]_vars

\* the call last made has the arguments and the dataset of the remembered one
SameInputs ==
  /\ probe.fn = "matchEpgId"
  /\ call.via # "none"
  /\ call.name = probe.arg.name
  /\ call.existing = probe.arg.existing
  /\ epgData.channels = probe.arg.channels

RECURSIVE ChannelsIn(_, _)
ChannelsIn(docs, n) ==
  IF n = 0 THEN 0 ELSE ChannelsIn(docs, n - 1) + Len(docs[n].channels)

RECURSIVE ProgrammesIn(_, _)
ProgrammesIn(docs, n) ==
  IF n = 0 THEN 0 ELSE ProgrammesIn(docs, n - 1) + Len(docs[n].programmes)

\* C17: the merged XMLTV document holds every raw channel block and every
\* raw programme block of every source that was fetched, and nothing else:
\* no block of a failed source, no block left out as a duplicate; the blocks
\* are in source order, all channel blocks before all programme blocks.
C17_MergedBlocks ==
  cachedXml # NULL =>
    LET out  == Merged(cachedXml)
        docs == OkDocs(xmlFrom, 1)
        nch  == ChannelsIn(docs, Len(docs))
    IN /\ Len(out) = nch + ProgrammesIn(docs, Len(docs))
       /\ \A a \in 1..Len(docs) :
            /\ \A k \in 1..Len(docs[a].channels) :
                 out[ChannelsIn(docs, a - 1) + k] = docs[a].channels[k]
            /\ \A k \in 1..Len(docs[a].programmes) :
                 out[nch + ProgrammesIn(docs, a - 1) + k] = docs[a].programmes[k]

\* both sources were fetched: the document has the 5 channel blocks, two of
\* them with the same normalized id, and then the 3 programme blocks
C17_Witness ==
  /\ cachedXml # NULL
  /\ Len(OkDocs(xmlFrom, 1)) = 2
  /\ Len(Merged(cachedXml)) = 8
  /\ Merged(cachedXml)[1].id = ID_ESPN
  /\ Merged(cachedXml)[4].id = ID_CESPN
  /\ normalizeEpgId(ID_ESPN) = normalizeEpgId(ID_CESPN)
  /\ Merged(cachedXml)[8] = DocB.programmes[2]

(***************************************************************************)
(* The parser of fetchEpgData on the documents a dataset was read from     *)
(* (checked under SpecMatch)                                               *)
(***************************************************************************)
\* C18: the parser gives one record for every channel element and one for
\* every programme element of a document, each with the element's own
\* fields; a display-name, title or desc that is missing gives the empty
\* string in that record, and no element is dropped.
C18_AsStated ==
  epgData # NULL =>
    \A n \in 1..Len(epgFrom) :
      epgFrom[n].ok =>
        LET d   == epgFrom[n].doc
            chs == ScanChannels(d.channels, 1)
            prs == ScanProgrammes(d.programmes)
        IN /\ Len(chs) = Len(d.channels)
           /\ \A k \in 1..Len(chs) :
                /\ chs[k].id = d.channels[k].id
                /\ chs[k].displayName = d.channels[k].dn
           /\ Len(prs) = Len(d.programmes)
           /\ \A k \in 1..Len(prs) :
                /\ prs[k].channel = d.programmes[k].channel
                /\ prs[k].title = d.programmes[k].title
                /\ prs[k].description = d.programmes[k].desc

(***************************************************************************)
(* Concurrent refreshes (checked under Spec)                               *)
(***************************************************************************)
\* request r's refresh has its last source settle in this step and publishes
Publishes(r) ==
  /\ req[r].pc = "epg_src"
  /\ req[r].src = NumSources
  /\ req'[r].pc # "epg_src"

\* C19: under any interleaving the slot holds nothing or the whole output of
\* one refresh: it changes only in the step in which a refresh has read its
\* last source, together with its fetch time, to the dataset built from the
\* sources of that refresh alone; no other step, of that refresh or of
\* another, changes a published dataset.
C19_AtomicReplacement ==
  /\ [](epgData # NULL => Len(epgFrom) = NumSources)
  /\ [][(epgData' # epgData \/ epgFetchedAt' # epgFetchedAt \/ epgFrom' # epgFrom)
          => \E r \in Req :
               /\ Publishes(r)
               /\ epgFetchedAt' = now
               /\ Len(epgFrom') = NumSources
               /\ SubSeq(epgFrom', 1, NumSources - 1) = req[r].got
               /\ epgData' =
                    [channels |-> DatasetOf[OkDocs(epgFrom', 1)].channels,
                     programmes |-> DatasetOf[OkDocs(epgFrom', 1)].programmes]
     ]_vars

\* a dataset is published and is being read by one request while the
\* refresh of the other has read one source and holds other channels
C19_Witness ==
  /\ epgData # NULL
  /\ req["r1"].pc = "enrich"
  /\ req["r2"].pc = "epg_src"
  /\ req["r2"].src = 2
  /\ Len(req["r2"].acc.channels) > 0
  /\ req["r2"].acc.channels # epgData.channels

\* request q is fetching provider p's catalog or enriching what it fetched
InFlight(q, p) ==
  /\ req[q].kind = "catalog"
  /\ req[q].prov = p
  /\ req[q].pc \in {"upstream", "enrich", "epg_src", "store"}

\* C20: refreshes are not serialized: a request that finds the dataset, or
\* its provider's entry, missing or stale while another request's refresh is
\* under way starts its own fetch from the beginning, and every refresh that
\* completes overwrites the slot with its own data, so that the slot holds
\* the data of the refresh that completed last.
C20_RefreshesNotSerialized ==
  [][/\ \A r \in Req, q \in Req :
          (q # r /\ CallsEpg(r) /\ ~EpgFresh /\ req[q].pc = "epg_src")
            => /\ req'[r].pc = "epg_src"
               /\ req'[r].src = 1
               /\ req'[r].acc = EmptyAcc
     /\ \A r \in Req :
          Publishes(r)
            => /\ SubSeq(epgFrom', 1, NumSources - 1) = req[r].got
               /\ epgFetchedAt' = now
     /\ \A r \in Req, q \in Req, p \in Providers :
          (q # r /\ CallsCatalog(r, p) /\ ~CatalogFresh(p) /\ InFlight(q, p))
            => req'[r].pc = "upstream"
     /\ \A r \in Req :
          (req[r].pc = "store" /\ req'[r].pc = "done")
            => cache'[req[r].prov] =
                 [categories |-> req[r].categories,
                  streams |-> req[r].streams, fetchedAt |-> now]
    ]_vars

\* both requests found no entry and no dataset, each fetched the catalog and
\* the sources itself, and the entry and the dataset are those of the
\* second, which completed last and read other sources than the first
C20_Witness ==
  /\ req["r1"].pc = "done" /\ req["r2"].pc = "done"
  /\ req["r1"].refreshes = 1 /\ req["r2"].refreshes = 1
  /\ req["r1"].result.fetchedAt < req["r2"].result.fetchedAt
  /\ cache["p1"] = req["r2"].result
  /\ epgFetchedAt = req["r2"].result.fetchedAt
  /\ req["r1"].result.streams # req["r2"].result.streams

(***************************************************************************)
(* What getCachedData stores and returns (checked under Spec)              *)
(***************************************************************************)
\* matchEpgId has been applied to every stream of the request's array
PassOver(rec) == rec.enriched = 1..Len(rec.streams)

\* the arrays are what the provider returned, but for the epg_channel_id of
\* the streams that came without one
FromUpstream(rec, p) ==
  \E c \in Catalogs(p) :
     /\ rec.categories = c.categories
     /\ Len(rec.streams) = Len(c.streams)
     /\ \A k \in 1..Len(c.streams) :
          /\ [rec.streams[k] EXCEPT !.epg_channel_id = <<>>]
               = [c.streams[k] EXCEPT !.epg_channel_id = <<>>]
          /\ HasEpgId(c.streams[k].epg_channel_id)
               => rec.streams[k].epg_channel_id = c.streams[k].epg_channel_id

\* getCachedData of request r returns in this step
Returns(r) == req[r].pc # "done" /\ req'[r].pc = "done" /\ req'[r].kind = "catalog"

\* C21: an entry is stored for a provider only by a request whose upstream
\* fetches both succeeded and whose enrichment pass has been over every
\* stream of the array, and what getCachedData returns is that entry or the
\* fresh entry of the mapping: in no interleaving of requests does the
\* mapping hold, or a request get, streams that have not been enriched.
C21_StoredAfterEnrichment ==
  [][/\ \A p \in Providers :
          cache'[p] # cache[p] =>
            \E r \in Req :
               /\ req[r].pc = "store" /\ req[r].prov = p /\ Returns(r)
               /\ FromUpstream(req[r], p)
               /\ PassOver(req[r])
               /\ cache'[p] = [categories |-> req[r].categories,
                               streams |-> req[r].streams, fetchedAt |-> now]
     /\ \A r \in Req :
          Returns(r) =>
            /\ req'[r].result = cache'[req'[r].prov]
            /\ req[r].pc = "store" \/ (req[r].pc = "idle" /\ cache' = cache)
     /\ \A r \in Req :
          req'[r].pc = "store" /\ req[r].pc # "store" => PassOver(req'[r])
    ]_vars

\* r1 stored the entry of p1 after a pass over both streams, one of which
\* got its id from the dataset, and r2 was served that entry from the mapping
C21_Witness ==
  /\ req["r1"].pc = "done" /\ req["r1"].kind = "catalog"
  /\ req["r1"].enriched = {1, 2}
  /\ req["r1"].result = cache["p1"]
  /\ cache["p1"].streams[1].epg_channel_id # <<>>
  /\ req["r2"].pc = "done" /\ req["r2"].kind = "catalog"
  /\ req["r2"].enriched = {}
  /\ req["r2"].result = cache["p1"]

(***************************************************************************)
(* The datasets of one enrichment pass (checked under SpecEnrich)          *)
(***************************************************************************)
\* C22 as stated: every stream of a pass is matched against the same
\* dataset, whatever expires or is refreshed during the pass.
C22_AsStated == \A r \in Req : Cardinality(req[r].used) <= 1

\* the loop of request r goes past a stream in this step
PastStream(r) ==
  /\ req[r].idx >= 1
  /\ req'[r] # req[r]
  /\ \/ req[r].pc = "enrich" /\ req'[r].pc # "epg_src"
     \/ req[r].pc = "epg_src" /\ req[r].ret = "match" /\ req'[r].pc # "epg_src"

\* C22: each stream of a pass that has no id of its own is matched against
\* the dataset that fetchEpgData returns to its matchEpgId call, which is the
\* dataset of the slot at that moment, less than the TTL old; a stream with an
\* id consults no dataset. The streams of one pass are matched against the
\* same dataset only as long as the slot is not refreshed during the pass.
C22_CurrentDataset ==
  [][\A r \in Req :
       PastStream(r) =>
         LET st  == req[r].streams[req[r].idx]
             st2 == req'[r].streams[req[r].idx]
         IN IF HasEpgId(st.epg_channel_id)
            THEN req'[r].used = req[r].used /\ st2 = st
            ELSE /\ epgData' # NULL
                 /\ now - epgFetchedAt' < EPG_CACHE_TTL
                 /\ req'[r].used = req[r].used \cup {epgData'}
                 /\ st2.epg_channel_id =
                      matchEpgId(epgData'.channels, st.name, st.epg_channel_id).id
    ]_vars

\* a pass whose two streams were matched against two datasets: the first
\* expired between the iterations and the refresh read other documents
C22_Witness ==
  /\ req["r1"].pc = "passed"
  /\ req["r1"].enriched = {1, 2}
  /\ Cardinality(req["r1"].used) = 2
  /\ epgData \in req["r1"].used

(***************************************************************************)
(* db.ts: the tables and the functions that read and write them. Every     *)
(* db.execute is one statement, which the database runs in one step; the   *)
(* caller awaits each of them, so other callers run between two statements *)
(***************************************************************************)
appvars == <<now, ticks, epgData, epgFetchedAt, epgFrom, cachedXml,
             cachedAt, xmlFrom, cache, req, call, probe>>

Range(f) == {f[k] : k \in DOMAIN f}

\* the short_code of a row that has none (SQL NULL, which the code tests by
\* truthiness)
NoCode == ""

\* a row of providers, as INSERT INTO providers (id, url, username) makes it
ProviderRow(url, username) ==
  [short_code |-> NoCode, url |-> url, username |-> username]

\* SELECT stream_id FROM selections WHERE provider_id = ?
SelectedIds(rows, p) == {row[2] : row \in {x \in rows : x[1] = p}}

\* saveSelections(providerId, streamIds) is called
SaveCall(t, p, ids) ==
  /\ task[t].pc = "idle"
  /\ providers[p] # NULL
  /\ task' = [task EXCEPT ![t] =
       [IdleTask EXCEPT !.pc = "delete", !.fn = "saveSelections",
                        !.prov = p, !.ids = ids]]
  /\ UNCHANGED <<appvars, providers, selections, sessions>>

\* DELETE FROM selections WHERE provider_id = ?
SaveDelete(t) ==
  /\ task[t].pc = "delete"
  /\ selections' = {row \in selections : row[1] # task[t].prov}
  /\ task' = [task EXCEPT ![t] =
       IF Len(task[t].ids) = 0
       THEN [@ EXCEPT !.pc = "done"]
       ELSE [@ EXCEPT !.pc = "insert", !.i = 1]]
  /\ UNCHANGED <<appvars, providers, sessions>>

\* INSERT INTO selections (provider_id, stream_id) VALUES (?, ?) for the next
\* element of streamIds; a row that exists violates the primary key, the
\* statement is rejected and saveSelections throws
SaveInsert(t) ==
  /\ task[t].pc = "insert"
  /\ LET row == <<task[t].prov, task[t].ids[task[t].i]>>
     IN IF row \in selections
        THEN /\ task' = [task EXCEPT ![t] = [@ EXCEPT !.pc = "error"]]
             /\ UNCHANGED selections
        ELSE /\ selections' = selections \cup {row}
             /\ task' = [task EXCEPT ![t] =
                  IF task[t].i = Len(task[t].ids)
                  THEN [@ EXCEPT !.pc = "done"]
                  ELSE [@ EXCEPT !.i = task[t].i + 1]]
  /\ UNCHANGED <<appvars, providers, sessions>>

\* getSelections(providerId): one SELECT; the order of the rows is the
\* database's, the result is kept as the set of the ids
GetSelections(t, p) ==
  /\ task[t].pc = "idle"
  /\ task' = [task EXCEPT ![t] =
       [IdleTask EXCEPT !.pc = "done", !.fn = "getSelections", !.prov = p,
                        !.result = SelectedIds(selections, p)]]
  /\ UNCHANGED <<appvars, providers, selections, sessions>>

(***************************************************************************)
(* saveSelections and getSelections on their own: both providers are in    *)
(* the table and have a selection; two callers save, one reads             *)
(***************************************************************************)
InitialRows == {<<"p1", 1>>, <<"p2", 3>>}

SelectionArgs == { <<1, 2>>, <<2, 3>>, <<3>>, <<>> }

InitSelections ==
  /\ now = 0
  /\ ticks = 0
  /\ epgData = NULL
  /\ epgFetchedAt = 0
  /\ epgFrom = <<>>
  /\ cachedXml = NULL
  /\ cachedAt = 0
  /\ xmlFrom = <<>>
  /\ cache = [p \in Providers |-> NULL]
  /\ req = [r \in Req |-> IdleReq]
  /\ call = NoCall
  /\ probe = NoProbe
  /\ providers = [p \in Providers |-> ProviderRow("u", "n")]
  /\ selections = InitialRows
  /\ sessions = [k \in Tokens |-> NULL]
  /\ task = [t \in Tasks |-> IdleTask]

NextSelections ==
  \/ \E t \in {"t1", "t2"}, p \in Providers, ids \in SelectionArgs : SaveCall(t, p, ids)
  \/ \E t \in Tasks : SaveDelete(t)
  \/ \E t \in Tasks : SaveInsert(t)
  \/ \E p \in Providers : GetSelections("t3", p)

SpecSelections == InitSelections /\ [][NextSelections]_vars

\* the saveSelections calls made for provider p, and those that are over
SavesOf(p) == {t \in Tasks : task[t].fn = "saveSelections" /\ task[t].prov = p}
Over(t) == task[t].pc \in {"done", "error"}

\* C23 as stated: once the saveSelections calls of a provider have
\* completed, its stored selection is the streamIds of one of them; a
\* getSelections sees the old set or the argument of a call; the selection
\* of a provider for which nothing was saved is unchanged.
C23_AsStated ==
  \A p \in Providers :
     /\ SavesOf(p) = {} =>
          SelectedIds(selections, p) = SelectedIds(InitialRows, p)
     /\ (SavesOf(p) # {} /\ \A t \in SavesOf(p) : Over(t)) =>
          \E t \in SavesOf(p) : SelectedIds(selections, p) = Range(task[t].ids)
     /\ \A t \in Tasks :
          task[t].fn = "getSelections" /\ task[t].prov = p =>
            \/ task[t].result = SelectedIds(InitialRows, p)
            \/ \E u \in SavesOf(p) : task[t].result = Range(task[u].ids)

(***************************************************************************)
(* db.ts: short codes                                                      *)
(***************************************************************************)
\* what generateShortCode may return: two of the 31^6 strings
ShortCodes == {"abc234", "xyz789"}

\* the providers that hold a short code: ... WHERE short_code = ?
Holders(rows, code) ==
  {q \in Providers : rows[q] # NULL /\ rows[q].short_code = code}

\* getProviderByShortCode(shortCode): the id of result.rows[0], or undefined
ProviderByShortCode(rows, code) ==
  IF Holders(rows, code) = {} THEN NoProvider ELSE CHOOSE q \in Holders(rows, code) : TRUE

\* getOrCreateShortCode(providerId): SELECT short_code FROM providers WHERE
\* id = ?; a code that is set is returned. POST calls it after the row of the
\* provider has been written or found
ShortCodeCall(t, p) ==
  /\ task[t].pc = "idle"
  /\ providers[p] # NULL
  /\ task' = [task EXCEPT ![t] =
       IF providers[p].short_code # NoCode
       THEN [IdleTask EXCEPT !.pc = "done", !.fn = "getOrCreateShortCode",
                             !.prov = p, !.result = providers[p].short_code]
       ELSE [IdleTask EXCEPT !.pc = "generate", !.fn = "getOrCreateShortCode",
                             !.prov = p]]
  /\ UNCHANGED <<appvars, providers, selections, sessions>>

\* one iteration of the do-while loop: a code is generated and looked up;
\* the loop is left with a code that no row holds
ShortCodeProbe(t) ==
  /\ task[t].pc = "generate"
  /\ \E code \in ShortCodes :
       task' = [task EXCEPT ![t] =
         IF Holders(providers, code) = {}
         THEN [@ EXCEPT !.pc = "update", !.code = code]
         ELSE @]
  /\ UNCHANGED <<appvars, providers, selections, sessions>>

\* UPDATE providers SET short_code = ? WHERE id = ?; the column is UNIQUE, so
\* the statement is rejected when another row holds the code
ShortCodeUpdate(t) ==
  /\ task[t].pc = "update"
  /\ LET p == task[t].prov
         code == task[t].code
     IN IF Holders(providers, code) \ {p} # {}
        THEN /\ task' = [task EXCEPT ![t] = [@ EXCEPT !.pc = "error"]]
             /\ UNCHANGED providers
        ELSE /\ providers' = [providers EXCEPT ![p] = [@ EXCEPT !.short_code = code]]
             /\ task' = [task EXCEPT ![t] = [@ EXCEPT !.pc = "done", !.result = code]]
  /\ UNCHANGED <<appvars, selections, sessions>>

\* getProviderByShortCode(shortCode)
GetProviderByShortCode(t, code) ==
  /\ task[t].pc \in {"idle", "done"}
  /\ task' = [task EXCEPT ![t] =
       [IdleTask EXCEPT !.pc = "done", !.fn = "getProviderByShortCode",
                        !.code = code,
                        !.result = ProviderByShortCode(providers, code)]]
  /\ UNCHANGED <<appvars, providers, selections, sessions>>

\* upsertProvider(id, url, username): INSERT ... ON CONFLICT(id) DO UPDATE SET
\* url, username
UpsertProvider(t, p, url, username) ==
  /\ task[t].pc \in {"idle", "done"}
  /\ providers' = [providers EXCEPT ![p] =
       IF @ = NULL THEN ProviderRow(url, username)
       ELSE [@ EXCEPT !.url = url, !.username = username]]
  /\ task' = [task EXCEPT ![t] =
       [IdleTask EXCEPT !.pc = "done", !.fn = "upsertProvider", !.prov = p]]
  /\ UNCHANGED <<appvars, selections, sessions>>

(***************************************************************************)
(* The short-code functions on their own: p1 is in the table without a     *)
(* code, p2 is written by upsertProvider; two callers ask for codes, a     *)
(* third upserts and resolves                                              *)
(***************************************************************************)
Urls == {"u", "v"}

InitCodes ==
  /\ now = 0
  /\ ticks = 0
  /\ epgData = NULL
  /\ epgFetchedAt = 0
  /\ epgFrom = <<>>
  /\ cachedXml = NULL
  /\ cachedAt = 0
  /\ xmlFrom = <<>>
  /\ cache = [p \in Providers |-> NULL]
  /\ req = [r \in Req |-> IdleReq]
  /\ call = NoCall
  /\ probe = NoProbe
  /\ providers = [p \in Providers |-> IF p = "p1" THEN ProviderRow("u", "n") ELSE NULL]
  /\ selections = {}
  /\ sessions = [k \in Tokens |-> NULL]
  /\ task = [t \in Tasks |-> IdleTask]

NextCodes ==
  \/ \E t \in {"t1", "t2"}, p \in Providers : ShortCodeCall(t, p)
  \/ \E t \in Tasks : ShortCodeProbe(t)
  \/ \E t \in Tasks : ShortCodeUpdate(t)
  \/ \E code \in ShortCodes : GetProviderByShortCode("t3", code)
  \/ \E p \in Providers, url \in Urls : UpsertProvider("t3", p, url, "n")

SpecCodes == InitCodes /\ [][NextCodes]_vars

\* C24 as stated: every short code that getOrCreateShortCode(p) returned
\* resolves to p through getProviderByShortCode, whatever calls ran
\* concurrently or later, and no two providers hold the same code.
C24_AsStated ==
  /\ \A t \in Tasks :
       task[t].fn = "getOrCreateShortCode" /\ task[t].pc = "done" =>
         ProviderByShortCode(providers, task[t].result) = task[t].prov
  /\ \A p \in Providers, q \in Providers :
       (p # q /\ providers[p] # NULL /\ providers[q] # NULL
        /\ providers[p].short_code # NoCode) =>
          providers[p].short_code # providers[q].short_code

(***************************************************************************)
(* session.ts: the sessions of the editor. setSession and getSession do    *)
(* not await, so each call is one step                                     *)
(***************************************************************************)
SESSION_TTL == 3600000

\* Expired that also lets a session go at the age of the limit
Expired_AtLimit(data) == now - data.createdAt >= SESSION_TTL

\* now - data.createdAt > 3600_000
Expired(data) == now - data.createdAt > SESSION_TTL

\* the map after cleanup()
Cleaned ==
  [k \in Tokens |->
     IF sessions[k] # NULL /\ Expired(sessions[k]) THEN NULL ELSE sessions[k]]

\* setSession(token, data): cleanup(), then sessions.set with a new createdAt
SetSession(token, data) ==
  /\ sessions' = [Cleaned EXCEPT ![token] = [data |-> data, createdAt |-> now]]
  /\ probe' = Returned(Pending("setSession", token), NULL)
  /\ UNCHANGED <<now, ticks, epgData, epgFetchedAt, epgFrom, cachedXml,
                 cachedAt, xmlFrom, cache, req, call, providers, selections, task>>

\* getSession(token): an expired session is deleted and undefined returned
GetSession(token) ==
  /\ LET data == sessions[token]
     IN IF data # NULL /\ Expired(data)
        THEN /\ sessions' = [sessions EXCEPT ![token] = NULL]
             /\ probe' = Returned(Pending("getSession", token), NULL)
        ELSE /\ UNCHANGED sessions
             /\ probe' = Returned(Pending("getSession", token), data)
  /\ UNCHANGED <<now, ticks, epgData, epgFetchedAt, epgFrom, cachedXml,
                 cachedAt, xmlFrom, cache, req, call, providers, selections, task>>

(***************************************************************************)
(* The session functions on their own: any sequence of calls for two       *)
(* tokens, while the clock moves by a millisecond or by the limit          *)
(***************************************************************************)
SessionSteps == {1, SESSION_TTL}

SessionPayloads == {"a", "b"}

\* time passes between two calls
Wait ==
  /\ ticks < MaxTicks
  /\ \E d \in SessionSteps : now' = now + d
  /\ ticks' = ticks + 1
  /\ UNCHANGED <<epgData, epgFetchedAt, epgFrom, cachedXml, cachedAt,
                 xmlFrom, cache, req, call, probe, dbvars>>

NextSession ==
  \/ Wait
  \/ \E k \in Tokens, d \in SessionPayloads : SetSession(k, d)
  \/ \E k \in Tokens : GetSession(k)

SpecSession == Init /\ [][NextSession]_vars

\* the step is a call of fn for token k
SessionCall(fn, k) ==
  /\ probe'.fn = fn /\ probe'.arg = k
  /\ probe' # probe \/ sessions' # sessions

\* C25: getSession(token) never returns data created more than 3,600,000 ms
\* before the call: such a session yields undefined and is removed from the
\* store; a session of that age or younger is returned as it is and stays;
\* setSession gives its token the data with the time of the call and removes
\* every other session that is older than the limit, and no other.
C25_SessionExpiry ==
  [][\A k \in Tokens :
       /\ SessionCall("getSession", k) =>
            /\ IF sessions[k] # NULL /\ now - sessions[k].createdAt > 3600000
               THEN probe'.out = NULL /\ sessions'[k] = NULL
               ELSE probe'.out = sessions[k] /\ sessions'[k] = sessions[k]
            /\ probe'.out # NULL => now - probe'.out.createdAt <= 3600000
            /\ \A j \in Tokens \ {k} : sessions'[j] = sessions[j]
       /\ SessionCall("setSession", k) =>
            /\ sessions'[k] # NULL /\ sessions'[k].createdAt = now
            /\ \A j \in Tokens \ {k} :
                 sessions'[j] =
                   IF sessions[j] # NULL /\ now - sessions[j].createdAt > 3600000
                   THEN NULL ELSE sessions[j]
    ]_vars

\* getSession returned the session of k1 at the age of exactly one hour,
\* while the session of k2, a millisecond older, is still in the store
C25_Witness ==
  /\ probe.fn = "getSession" /\ probe.arg = "k1" /\ probe.done
  /\ probe.out # NULL
  /\ now - probe.out.createdAt = SESSION_TTL
  /\ sessions["k2"] # NULL
  /\ now - sessions["k2"].createdAt = SESSION_TTL + 1
  /\ sessions["k1"] = probe.out

(***************************************************************************)
(* GET of xtream/route.ts: get.php and the catalog actions of              *)
(* player_api.php                                                          *)
(***************************************************************************)
\* KeepSelected that keeps every stream
KeepSelected_All(streams, selectedIds) == streams

\* streams.filter((s) => selectedIds.has(s.stream_id))
KeepSelected(streams, selectedIds) ==
  SelectSeq(streams, LAMBDA st : st.stream_id \in selectedIds)

\* catMap.get(stream.category_id) || "Uncategorized": the map holds the name
\* of the last category with that id
GroupTitle(categories, id) ==
  LET at == {k \in 1..Len(categories) : categories[k].category_id = id}
  IN IF at = {} \/ categories[Max(at)].category_name = ""
     THEN "Uncategorized"
     ELSE categories[Max(at)].category_name

\* buildM3U(creds, streams, categories): the #EXTINF line and the URL line
\* of every stream, by the fields that they are made of
buildM3U(streams, categories) ==
  [k \in 1..Len(streams) |->
     [tvg_id |-> streams[k].epg_channel_id, tvg_name |-> streams[k].name,
      group_title |-> GroupTitle(categories, streams[k].category_id),
      stream_id |-> streams[k].stream_id]]

\* the response to get_live_categories
CategoriesResponse(entry, selectedIds) ==
  LET sel == KeepSelected(entry.streams, selectedIds)
      usedCategoryIds == {sel[k].category_id : k \in 1..Len(sel)}
  IN SelectSeq(entry.categories, LAMBDA c : c.category_id \in usedCategoryIds)

\* the response to get_live_streams: if (categoryId) keeps one category; the
\* direct_source of a stream is built from its stream_id
StreamsResponse(entry, selectedIds, categoryId) ==
  LET sel == KeepSelected(entry.streams, selectedIds)
      filtered == IF categoryId # ""
                  THEN SelectSeq(sel, LAMBDA st : st.category_id = categoryId)
                  ELSE sel
  IN [k \in 1..Len(filtered) |->
        [stream |-> filtered[k], direct_source |-> filtered[k].stream_id]]

\* lines 57-72: the provider is looked up by the short code of the request;
\* without one the response is auth 0, otherwise its selection is read
GetRequest(r, code, action, categoryId) ==
  /\ req[r].pc = "idle" /\ req[r].action = "none"
  /\ r = "r1" \/ req["r1"].action # "none"
  /\ LET p == ProviderByShortCode(providers, code)
     IN req' = [req EXCEPT ![r] =
          IF p = NoProvider
          THEN [@ EXCEPT !.pc = "served", !.action = action, !.selectedIds = {},
                         !.response = [auth |-> 0]]
          ELSE [@ EXCEPT !.prov = p, !.action = action,
                         !.categoryId = IF action = "get_live_streams"
                                        THEN categoryId ELSE "",
                         !.selectedIds = SelectedIds(selections, p)]]
  /\ UNCHANGED <<now, ticks, epgData, epgFetchedAt, epgFrom, cachedXml,
                 cachedAt, xmlFrom, cache, call, probe, dbvars>>

\* await getCachedData(provider.id, creds) is called
GetCatalog(r) ==
  /\ req[r].action # "none"
  /\ StartCatalog(r, req[r].prov)

\* getCachedData returned: the response is built and sent
Respond(r) ==
  /\ req[r].pc = "done" /\ req[r].kind = "catalog" /\ req[r].action # "none"
  /\ LET rec == req[r]
         entry == rec.result
     IN req' = [req EXCEPT ![r] = [@ EXCEPT !.pc = "served", !.response =
          IF rec.action = "m3u"
          THEN buildM3U(KeepSelected(entry.streams, rec.selectedIds), entry.categories)
          ELSE IF rec.action = "get_live_categories"
               THEN CategoriesResponse(entry, rec.selectedIds)
               ELSE StreamsResponse(entry, rec.selectedIds, rec.categoryId)]]
  /\ UNCHANGED <<now, ticks, epgData, epgFetchedAt, epgFrom, cachedXml,
                 cachedAt, xmlFrom, cache, call, probe, dbvars>>

(***************************************************************************)
(* The catalog requests of a client of provider p2, which has a short code *)
(* and a selection, while the selection is saved again; the EPG dataset    *)
(* has been read from both sources and does not expire                     *)
(***************************************************************************)
CatalogActions == {"m3u", "get_live_categories", "get_live_streams"}

CategoryIds == {"", "c2"}

ServeArgs == { <<4>>, <<3, 4>> }

InitServe ==
  /\ now = 0
  /\ ticks = 0
  /\ LET acc == ParseSource(ParseSource(EmptyAcc, DocA), DocB)
     IN epgData = [channels |-> acc.channels, programmes |-> acc.programmes]
  /\ epgFetchedAt = 0
  /\ epgFrom = << Seen([status |-> "ok", doc |-> DocA]),
                  Seen([status |-> "ok", doc |-> DocB]) >>
  /\ cachedXml = NULL
  /\ cachedAt = 0
  /\ xmlFrom = <<>>
  /\ cache = [p \in Providers |-> NULL]
  /\ req = [r \in Req |-> IdleReq]
  /\ call = NoCall
  /\ probe = NoProbe
  /\ providers = [p \in Providers |->
       IF p = "p2" THEN [ProviderRow("u", "n") EXCEPT !.short_code = "abc234"]
       ELSE NULL]
  /\ selections = {<<"p2", 3>>}
  /\ sessions = [k \in Tokens |-> NULL]
  /\ task = [t \in Tasks |-> IdleTask]

NextServe ==
  \/ \E r \in Req, code \in ShortCodes, action \in CatalogActions,
        categoryId \in CategoryIds : GetRequest(r, code, action, categoryId)
  \/ \E r \in Req : GetCatalog(r)
  \/ \E r \in Req : UpstreamFail(r)
  \/ \E r \in Req : UpstreamDone(r)
  \/ \E r \in Req : EnrichStep(r)
  \/ \E r \in Req : StoreEntry(r)
  \/ \E r \in Req : Respond(r)
  \/ \E ids \in ServeArgs : SaveCall("t1", "p2", ids)
  \/ SaveDelete("t1")
  \/ SaveInsert("t1")

SpecServe == InitServe /\ [][NextServe]_vars

\* the streams of an entry that are in a selection, and their categories
SelectedOf(entry, sel) ==
  {entry.streams[j] : j \in {i \in 1..Len(entry.streams) :
                               entry.streams[i].stream_id \in sel}}

\* C26: the selection that a catalog request filters by is the provider's
\* saved selection when the request read it; the M3U playlist and
\* get_live_streams return only streams of the cached catalog whose
\* stream_id is in it, get_live_categories returns only categories of the
\* catalog with a selected stream, and the group titles of the playlist are
\* those of the selected streams; building the response changes neither
\* the mapping nor the entry that was returned.
C26_OnlySelected ==
  [][\A r \in Req :
       /\ (req[r].action = "none" /\ req'[r].action # "none"
           /\ req'[r].pc # "served") =>
            req'[r].selectedIds = SelectedIds(selections, req'[r].prov)
       /\ (req[r].pc = "done" /\ req'[r].pc = "served") =>
            LET entry == req[r].result
                sel   == req[r].selectedIds
                resp  == req'[r].response
                chosen == SelectedOf(entry, sel)
            IN /\ cache' = cache
               /\ req'[r].result = entry
               /\ req'[r].selectedIds = sel
               /\ req[r].action = "m3u" =>
                    \A k \in 1..Len(resp) :
                       \E st \in chosen :
                          /\ resp[k].stream_id = st.stream_id
                          /\ resp[k].tvg_name = st.name
                          /\ \/ \E c \in Range(entry.categories) :
                                  /\ c.category_id = st.category_id
                                  /\ resp[k].group_title = c.category_name
                             \/ resp[k].group_title = "Uncategorized"
               /\ req[r].action = "get_live_streams" =>
                    \A k \in 1..Len(resp) : resp[k].stream \in chosen
               /\ req[r].action = "get_live_categories" =>
                    \A k \in 1..Len(resp) :
                       /\ resp[k] \in Range(entry.categories)
                       /\ \E st \in chosen : st.category_id = resp[k].category_id
    ]_vars

\* r1 got one of the two streams of the catalog, r2 one of its two
\* categories, both from the entry that the mapping holds, while the saved
\* selection has changed since
C26_Witness ==
  /\ req["r1"].pc = "served" /\ req["r1"].action = "get_live_streams"
  /\ req["r1"].kind = "catalog" /\ req["r2"].kind = "catalog"
  /\ Len(req["r1"].result.streams) = 2
  /\ Len(req["r1"].response) = 1
  /\ req["r2"].pc = "served" /\ req["r2"].action = "get_live_categories"
  /\ Len(req["r2"].result.categories) = 2
  /\ Len(req["r2"].response) = 1
  /\ req["r2"].result = cache["p2"]
  /\ SelectedIds(selections, "p2") # req["r2"].selectedIds

====
